---- MODULE Spec2Model ----
(***************************************************************************)
(* Model of the ICF extraction pipeline (package icf): the tag classifier  *)
(* of registry.py, the router and recovery parser of extract.py, the       *)
(* validation of validate.py and the orchestrator loop of pipeline.py.     *)
(*                                                                         *)
(* Text is modelled as a sequence of lexical tokens.  Every token stands   *)
(* for the literal characters written in its name, TokLen gives its number *)
(* of characters, and only the tokens "{" and "}" contain brace            *)
(* characters.  Python values are tagged records [t, s, items].            *)
(***************************************************************************)
EXTENDS Integers, Sequences, FiniteSets, TLC

VARIABLES
    variables,    \* run(): the work items, a sequence of TemplateVariable
    textstat,     \* the textstat package: installed or not, and the grade it gives
    max_iterations, \* ExtractionEngine.max_iterations: the configured maximum
    pc,           \* run(): "idle" | "loop" | "inflight" | "validate" | "summarise"
                  \*        | "done" | "crashed"
    idx,          \* run(): 1-based index of the item the loop is at
    extractions,  \* run(): list of ExtractionResult
    validations,  \* run(): list of ValidationResult
    summary,      \* run(): the dict of _build_summary
    interrupted,  \* run(): KeyboardInterrupt was caught around the loop
    run_exc,      \* the exception that ended run(), "" when none
    rlm_log,      \* the calls made on the agent so far: RLM(...) and completion(...),
                  \* the only two the engine makes
    last_call,    \* what the agent did in the latest extract_variable call
    raw,          \* parse_extraction_json: the text handed to it
    rec_pc,       \* "idle" | "ready" | "done"
    rec_out,      \* its outcome: a dict, None, or a raised exception
    candidates,   \* its local candidates: the result of the brace scan
    complexity,   \* _classify_availability: the list of tags handed to it
    cls_pc,       \* "idle" | "ready" | "done"
    cls_out,      \* its result <<is_in_protocol, partially_in_protocol, is_standard_text>>
    lbl_is_in_protocol, \* get_complexity_label: is_in_protocol of the variable it is called on
    lbl_pc,       \* "idle" | "ready" | "done"
    lbl_out,      \* its result, a label
    vq_quote,     \* verify_quote: the quote handed to it
    vq_text,      \* verify_quote: the protocol text handed to it
    vq_pc,        \* "idle" | "ready" | "done"
    vq_out,       \* its result, a bool
    vq_issues     \* validate_extractions: the issues its loop appended for the quote

run_vars == <<variables, textstat, max_iterations, pc, idx, extractions, validations,
              summary, interrupted, run_exc, rlm_log, last_call>>
rec_vars == <<raw, rec_pc, rec_out, candidates>>
cls_vars == <<complexity, cls_pc, cls_out, lbl_is_in_protocol, lbl_pc, lbl_out>>
vq_vars == <<vq_quote, vq_text, vq_pc, vq_out, vq_issues>>
vars == <<run_vars, rec_vars, cls_vars, vq_vars>>

-----------------------------------------------------------------------------
(* Python values *)

\* A str is the token sequence of its characters: PyStr(<<"FOUND">>).
PyStr(s) == [t |-> "str", s |-> s, items |-> <<>>]
PyNone == [t |-> "none", s |-> <<>>, items |-> <<>>]
PyNum(s) == [t |-> "num", s |-> s, items |-> <<>>]
PyList(xs) == [t |-> "list", s |-> <<>>, items |-> xs]
PySet(xs) == [t |-> "set", s |-> <<>>, items |-> xs]
PyTuple(xs) == [t |-> "tuple", s |-> <<>>, items |-> xs]
\* A dict is its insertion-ordered sequence of [k, v] pairs, keys distinct.
PyDict(pairs) == [t |-> "dict", s |-> <<>>, items |-> pairs]
\* An identifier in a Python expression (ast.Name): no literal.
PyName(s) == [t |-> "name", s |-> s, items |-> <<>>]

isinstance_dict(v) == v.t = "dict"

HasKey(d, k) == \E i \in 1..Len(d.items) : d.items[i].k = k

\* dict.get(k, default)
DictGet(d, k, default) ==
    IF HasKey(d, k)
    THEN d.items[CHOOSE i \in 1..Len(d.items) : d.items[i].k = k].v
    ELSE default

\* d[k] = v : replaces the value in place, or appends a new key.
DictSet(pairs, k, v) ==
    IF \E i \in 1..Len(pairs) : pairs[i].k = k
    THEN [i \in 1..Len(pairs) |-> IF pairs[i].k = k THEN [k |-> k, v |-> v] ELSE pairs[i]]
    ELSE Append(pairs, [k |-> k, v |-> v])

-----------------------------------------------------------------------------
(* Strings that are read character by character: one token per character *)

\* protocol.full_text of the run
ProtocolText ==
    <<"T", "h", "e", " ", "s", "p", "o", "n", "s", "o", "r", " ", "w", "i",
      "l", "l", " ", "p", "a", "y", " ", "a", "l", "l", " ", "c", "o", "s",
      "t", "s", ".">>

\* an evidence quote found in the protocol up to case and blanks
QuoteGrounded ==
    <<"t", "h", "e", " ", "S", "P", "O", "N", "S", "O", "R", " ", "w", "i",
      "l", "l", " ", " ", " ", "p", "a", "y", " ", "a", "l", "l", " ", "c",
      "o", "s", "t", "s">>

\* an evidence quote that is nowhere in the protocol
QuoteUngrounded ==
    <<"t", "h", "e", " ", "m", "o", "o", "n", " ", "i", "s", " ", "c", "h",
      "e", "e", "s", "e">>

\* an answer of ten words or more
AnswerLong ==
    <<"Y", "o", "u", " ", "w", "i", "l", "l", " ", "v", "i", "s", "i", "t",
      " ", "t", "h", "e", " ", "c", "l", "i", "n", "i", "c", " ", "t", "e",
      "n", " ", "t", "i", "m", "e", "s", " ", "i", "n", " ", "a", "l", "l",
      " ", "t", "h", "i", "s", " ", "y", "e", "a", "r", ".">>

-----------------------------------------------------------------------------
(* Tokens *)

\* kind: lbrace rbrace lbrack rbrack comma key atom ws fence word
\* q: "dq" double-quoted (JSON and Python), "sq" single-quoted (Python only),
\*    "json" a JSON-only literal, "py" a Python-only literal, "any" both.
Tok(kind, len, q, name, val) ==
    [kind |-> kind, len |-> len, q |-> q, name |-> name, val |-> val]

Punct(kind) == Tok(kind, 1, "any", "", PyNone)
KeyTok(len, q, name) == Tok("key", len, q, name, PyNone)
AtomTok(len, q, val) == Tok("atom", len, q, "", val)

TokInfo(tok) ==
    CASE tok = "{" -> Punct("lbrace")
      [] tok = "}" -> Punct("rbrace")
      [] tok = "[" -> Punct("lbrack")
      [] tok = "]" -> Punct("rbrack")
      [] tok = "," -> Punct("comma")
      [] tok = " " -> Punct("ws")
      [] tok = "\n" -> Punct("ws")
      \* FENCE is the three-backquote markdown code fence
      [] tok = "FENCE" -> Tok("fence", 3, "any", "", PyNone)
      [] tok = "json" -> Tok("word", 4, "any", "ident", PyName(<<"json">>))
      [] tok = "Done" -> Tok("word", 4, "any", "ident", PyName(<<"Done">>))
      [] tok = "The answer was not found." -> Tok("word", 25, "any", "prose", PyNone)
      [] tok = "\"section_id\":" -> KeyTok(13, "dq", "section_id")
      [] tok = "\"status\":" -> KeyTok(9, "dq", "status")
      [] tok = "'status':" -> KeyTok(9, "sq", "status")
      [] tok = "\"answer\":" -> KeyTok(9, "dq", "answer")
      [] tok = "\"filled_template\":" -> KeyTok(18, "dq", "filled_template")
      [] tok = "\"evidence\":" -> KeyTok(11, "dq", "evidence")
      [] tok = "\"confidence\":" -> KeyTok(13, "dq", "confidence")
      [] tok = "\"notes\":" -> KeyTok(8, "dq", "notes")
      [] tok = "\"quote\":" -> KeyTok(8, "dq", "quote")
      [] tok = "\"page\":" -> KeyTok(7, "dq", "page")
      [] tok = "\"FOUND\"" -> AtomTok(7, "dq", PyStr(<<"FOUND">>))
      [] tok = "'FOUND'" -> AtomTok(7, "sq", PyStr(<<"FOUND">>))
      [] tok = "\"PARTIAL\"" -> AtomTok(9, "dq", PyStr(<<"PARTIAL">>))
      [] tok = "\"NOT_FOUND\"" -> AtomTok(11, "dq", PyStr(<<"NOT_FOUND">>))
      [] tok = "\"SKIPPED\"" -> AtomTok(9, "dq", PyStr(<<"SKIPPED">>))
      [] tok = "\"STANDARD_TEXT\"" -> AtomTok(15, "dq", PyStr(<<"STANDARD_TEXT">>))
      [] tok = "\"DONE\"" -> AtomTok(6, "dq", PyStr(<<"DONE">>))
      [] tok = "\"HIGH\"" -> AtomTok(6, "dq", PyStr(<<"HIGH">>))
      [] tok = "\"x\"" -> AtomTok(3, "dq", PyStr(<<"x">>))
      [] tok = "\"7\"" -> AtomTok(3, "dq", PyStr(<<"7">>))
      [] tok = "\"the SPONSOR will   pay all costs\"" -> AtomTok(34, "dq", PyStr(QuoteGrounded))
      [] tok = "\"the moon is cheese\"" -> AtomTok(20, "dq", PyStr(QuoteUngrounded))
      [] tok = "\"You will visit the clinic ten times in all this year.\"" -> AtomTok(55, "dq", PyStr(AnswerLong))
      [] tok = "5" -> AtomTok(1, "any", PyNum(<<"5">>))
      [] tok = "null" -> AtomTok(4, "json", PyNone)
      [] tok = "None" -> AtomTok(4, "py", PyNone)
      \* the contents of short strings, as one token each
      [] tok \in {"FOUND", "ERROR"} -> Tok("word", 5, "any", "text", PyNone)
      [] tok \in {"PARTIAL", "SKIPPED"} -> Tok("word", 7, "any", "text", PyNone)
      [] tok = "NOT_FOUND" -> Tok("word", 9, "any", "text", PyNone)
      [] tok = "STANDARD_TEXT" -> Tok("word", 13, "any", "text", PyNone)
      [] tok \in {"DONE", "HIGH"} -> Tok("word", 4, "any", "text", PyNone)
      [] tok \in {"LOW", "N/A"} -> Tok("word", 3, "any", "text", PyNone)
      \* any other token is a single character
      [] OTHER -> Tok("char", 1, "any", "", PyNone)

Kind(tok) == TokInfo(tok).kind

RECURSIVE TextLen(_)
\* len(text): the number of characters of a token sequence
TextLen(text) ==
    IF text = <<>> THEN 0
    ELSE IF Len(text) = 1 THEN TokInfo(text[1]).len
    ELSE TextLen(SubSeq(text, 1, Len(text) \div 2))
         + TextLen(SubSeq(text, Len(text) \div 2 + 1, Len(text)))

RECURSIVE LStrip(_)
LStrip(text) ==
    IF text # <<>> /\ Kind(Head(text)) = "ws" THEN LStrip(Tail(text)) ELSE text

RECURSIVE RStrip(_)
RStrip(text) ==
    IF text # <<>> /\ Kind(text[Len(text)]) = "ws"
    THEN RStrip(SubSeq(text, 1, Len(text) - 1))
    ELSE text

\* str.strip()
Strip(text) == RStrip(LStrip(text))

-----------------------------------------------------------------------------
(* json.loads and ast.literal_eval over token sequences *)

\* An exception: type(e).__name__ and str(e); NoExc when nothing is raised.
Exc(type, msg) == [type |-> type, msg |-> msg]
NoExc == Exc("", <<>>)

ParseFail == [ok |-> FALSE, v |-> PyNone, pos |-> 0]
ParseOk(v, pos) == [ok |-> TRUE, v |-> v, pos |-> pos]

RECURSIVE SkipWs(_, _)
SkipWs(toks, pos) ==
    IF pos <= Len(toks) /\ Kind(toks[pos]) = "ws" THEN SkipWs(toks, pos + 1) ELSE pos

\* d is the dialect: "json" for json.loads, "py" for ast.parse(mode="eval").
KeyOk(info, d) == info.q = "dq" \/ (d = "py" /\ info.q = "sq")

RECURSIVE ParseValue(_, _, _)
RECURSIVE ParseElements(_, _, _, _, _)
RECURSIVE ParseMembers(_, _, _, _)

\* The value a bracketed display yields once its members are parsed.
Display(type, r) ==
    IF r.ok THEN ParseOk([t |-> type, s |-> <<>>, items |-> r.v], r.pos) ELSE ParseFail

ParseAtom(info, tok, p, d) ==
    CASE info.q \in {"any", "dq"} -> ParseOk(info.val, p + 1)
      [] info.q = "sq" -> IF d = "py" THEN ParseOk(info.val, p + 1) ELSE ParseFail
      [] info.q = "py" -> IF d = "py" THEN ParseOk(info.val, p + 1) ELSE ParseFail
      \* null is a JSON literal and, to Python, an identifier
      [] info.q = "json" ->
            IF d = "json" THEN ParseOk(info.val, p + 1) ELSE ParseOk(PyName(<<tok>>), p + 1)

ParseValue(toks, pos, d) ==
    LET p == SkipWs(toks, pos) IN
    IF p > Len(toks) THEN ParseFail
    ELSE
      LET info == TokInfo(toks[p])
          q == SkipWs(toks, p + 1)
      IN
      CASE info.kind = "atom" -> ParseAtom(info, toks[p], p, d)
        [] info.kind = "word" ->
              IF d = "py" /\ info.name = "ident" THEN ParseOk(info.val, p + 1) ELSE ParseFail
        [] info.kind = "lbrack" ->
              Display("list", ParseElements(toks, p + 1, d, <<>>, "rbrack"))
        [] info.kind = "lbrace" ->
              IF q > Len(toks) THEN ParseFail
              ELSE IF Kind(toks[q]) \in {"rbrace", "key"}
              THEN Display("dict", ParseMembers(toks, p + 1, d, <<>>))
              \* {a, b}: a set display, Python only
              ELSE IF d = "py"
              THEN Display("set", ParseElements(toks, p + 1, d, <<>>, "rbrace"))
              ELSE ParseFail
        [] OTHER -> ParseFail

ParseElements(toks, pos, d, acc, closer) ==
    LET p == SkipWs(toks, pos) IN
    IF p > Len(toks) THEN ParseFail
    ELSE IF Kind(toks[p]) = closer
    \* "[]", or a trailing comma, which only Python accepts
    THEN IF acc = <<>> \/ d = "py" THEN ParseOk(acc, p + 1) ELSE ParseFail
    ELSE
      LET r == ParseValue(toks, p, d) IN
      IF ~r.ok THEN ParseFail
      ELSE
        LET q == SkipWs(toks, r.pos) IN
        IF q > Len(toks) THEN ParseFail
        ELSE IF Kind(toks[q]) = "comma"
        THEN ParseElements(toks, q + 1, d, Append(acc, r.v), closer)
        ELSE IF Kind(toks[q]) = closer THEN ParseOk(Append(acc, r.v), q + 1)
        ELSE ParseFail

ParseMembers(toks, pos, d, acc) ==
    LET p == SkipWs(toks, pos) IN
    IF p > Len(toks) THEN ParseFail
    ELSE IF Kind(toks[p]) = "rbrace"
    THEN IF acc = <<>> \/ d = "py" THEN ParseOk(acc, p + 1) ELSE ParseFail
    ELSE IF Kind(toks[p]) # "key" \/ ~KeyOk(TokInfo(toks[p]), d) THEN ParseFail
    ELSE
      LET r == ParseValue(toks, p + 1, d) IN
      IF ~r.ok THEN ParseFail
      ELSE
        LET q == SkipWs(toks, r.pos)
            pair == [k |-> TokInfo(toks[p]).name, v |-> r.v]
        IN
        IF q > Len(toks) THEN ParseFail
        ELSE IF Kind(toks[q]) = "comma" THEN ParseMembers(toks, q + 1, d, Append(acc, pair))
        ELSE IF Kind(toks[q]) = "rbrace" THEN ParseOk(Append(acc, pair), q + 1)
        ELSE ParseFail

RECURSIVE SkipSpaces(_, _)
\* Outside brackets a newline ends a Python expression: only blanks are
\* skipped there, and only white space may follow the newline.
SkipSpaces(toks, pos) ==
    IF pos <= Len(toks) /\ toks[pos] = " " THEN SkipSpaces(toks, pos + 1) ELSE pos

RECURSIVE ParseTuple(_, _, _)
RECURSIVE TupleAfter(_, _, _)
\* Python only: "a, b" and "a," at the top level are tuples.
ParseTuple(toks, pos, acc) ==
    LET p == SkipSpaces(toks, pos) IN
    IF SkipWs(toks, p) > Len(toks) THEN ParseOk(PyTuple(acc), p)
    ELSE IF Kind(toks[p]) = "ws" THEN ParseFail
    ELSE TupleAfter(toks, acc, ParseValue(toks, p, "py"))
\* the rest of a tuple after its member r
TupleAfter(toks, acc, r) ==
    IF ~r.ok THEN ParseFail
    ELSE
      LET q == SkipSpaces(toks, r.pos) IN
      IF SkipWs(toks, q) > Len(toks) THEN ParseOk(PyTuple(Append(acc, r.v)), q)
      ELSE IF Kind(toks[q]) = "comma" THEN ParseTuple(toks, q + 1, Append(acc, r.v))
      ELSE ParseFail

\* What follows the first value r of a text: nothing, or for Python a comma.
TextAfter(text, d, r) ==
    IF ~r.ok THEN ParseFail
    ELSE
      LET q == IF d = "py" THEN SkipSpaces(text, r.pos) ELSE SkipWs(text, r.pos) IN
      IF SkipWs(text, q) > Len(text) THEN r
      ELSE IF d = "py" /\ Kind(text[q]) = "comma" THEN ParseTuple(text, q + 1, <<r.v>>)
      ELSE ParseFail

\* The syntax tree of the whole text, or a failure when it is not one value.
ParseText(text, d) == TextAfter(text, d, ParseValue(text, 1, d))

RECURSIVE Norm(_)
RECURSIVE NormPairs(_, _)
\* The value of a tree: a repeated key keeps its first position and last value.
Norm(tr) ==
    CASE tr.t = "dict" -> PyDict(NormPairs(tr.items, <<>>))
      [] tr.t \in {"list", "set", "tuple"} ->
            [tr EXCEPT !.items = [i \in 1..Len(tr.items) |-> Norm(tr.items[i])]]
      [] OTHER -> tr
NormPairs(pairs, acc) ==
    IF pairs = <<>> THEN acc
    ELSE NormPairs(Tail(pairs), DictSet(acc, Head(pairs).k, Norm(Head(pairs).v)))

\* json.loads(text): ok with the value, or JSONDecodeError (ok = FALSE).
JsonResult(r) ==
    IF r.ok THEN [ok |-> TRUE, v |-> Norm(r.v), exc |-> NoExc]
    ELSE [ok |-> FALSE, v |-> PyNone, exc |-> Exc("JSONDecodeError", <<"Expecting value">>)]

json_loads(text) == JsonResult(ParseText(text, "json"))

RECURSIVE ConvertErr(_)
RECURSIVE FirstErr(_, _, _)
\* ast.literal_eval's _convert, left to right: the first exception it raises.
\* A name is a malformed node (ValueError); an unhashable member of a set
\* display is a TypeError.
ConvertErr(tr) ==
    CASE tr.t = "name" -> Exc("ValueError", <<"malformed node or string">>)
      [] tr.t \in {"list", "tuple"} -> FirstErr(tr.items, 1, FALSE)
      [] tr.t = "set" -> FirstErr(tr.items, 1, TRUE)
      [] tr.t = "dict" -> FirstErr([i \in 1..Len(tr.items) |-> tr.items[i].v], 1, FALSE)
      [] OTHER -> NoExc
FirstErr(xs, i, hashed) ==
    IF i > Len(xs) THEN NoExc
    ELSE LET e == ConvertErr(xs[i]) IN
         IF e # NoExc THEN e
         ELSE IF hashed /\ xs[i].t \in {"list", "dict", "set"}
         THEN Exc("TypeError", <<"unhashable type: '", xs[i].t, "'">>)
         ELSE FirstErr(xs, i + 1, hashed)

\* ast.literal_eval(text)
LiteralResult(r) ==
    IF ~r.ok THEN [ok |-> FALSE, v |-> PyNone, exc |-> Exc("SyntaxError", <<"invalid syntax">>)]
    ELSE IF ConvertErr(r.v) # NoExc THEN [ok |-> FALSE, v |-> PyNone, exc |-> ConvertErr(r.v)]
    ELSE [ok |-> TRUE, v |-> Norm(r.v), exc |-> NoExc]

literal_eval(text) == LiteralResult(ParseText(text, "py"))

-----------------------------------------------------------------------------
(* parse_extraction_json *)

\* The positions of the fence tokens of a text, in order.
FencePositions(text) == {i \in 1..Len(text) : Kind(text[i]) = "fence"}

\* re.search of the fence pattern in raw (re.DOTALL): the leftmost fence that
\* a later fence closes; group(1).strip() is the text between them, after an
\* optional "json" tag.
md_match(text) ==
    LET fs == FencePositions(text) IN
    IF Cardinality(fs) < 2 THEN [found |-> FALSE, inner |-> <<>>]
    ELSE
      LET open == CHOOSE i \in fs : \A j \in fs : i <= j
          close == CHOOSE i \in fs \ {open} : \A j \in fs \ {open} : i <= j
          from == IF open + 1 < close /\ text[open + 1] = "json" THEN open + 2 ELSE open + 1
      IN [found |-> TRUE, inner |-> Strip(SubSeq(text, from, close - 1))]

RECURSIVE BraceScan(_, _, _, _, _)
\* The loop of _extract_brace_candidates from index i on; start = 0 is None.
BraceScan(text, i, depth, start, results) ==
    IF i > Len(text) THEN results
    ELSE IF text[i] = "{"
    THEN BraceScan(text, i + 1, depth + 1, IF depth = 0 THEN i ELSE start, results)
    ELSE IF text[i] = "}"
    THEN IF depth - 1 = 0 /\ start # 0
         THEN BraceScan(text, i + 1, depth - 1, 0, Append(results, SubSeq(text, start, i)))
         ELSE BraceScan(text, i + 1, depth - 1, start, results)
    ELSE BraceScan(text, i + 1, depth, start, results)

_extract_brace_candidates(text) == BraceScan(text, 1, 0, 0, <<>>)

ReturnNone == [kind |-> "None", v |-> PyNone, exc |-> NoExc]
ReturnDict(v) == [kind |-> "dict", v |-> v, exc |-> NoExc]
Raise(exc) == [kind |-> "raise", v |-> PyNone, exc |-> exc]

\* "isinstance(data, dict)" after a json.loads that may have raised
IsDict(r) == r.ok /\ isinstance_dict(r.v)

DictOrNone(r) == IF IsDict(r) THEN ReturnDict(r.v) ELSE ReturnNone

\* The first of the parsed candidates, from the last to the first, among
\* those at the positions S; S empty, the loop ends without a return.
LastPassing(parsed, S) ==
    IF S = {} THEN ReturnNone
    ELSE ReturnDict(parsed[CHOOSE i \in S : \A j \in S : j <= i].v)

HasStatus(r) == IsDict(r) /\ HasKey(r.v, "status")

OrElse(first, second) == IF first.kind = "None" THEN second ELSE first

\* Strategies 4 and 5, the one loop over reversed(candidates): the first
\* dict with a "status" key is returned at once; none found, the first dict
\* met (any_valid) is returned after the loop.
BraceLoops(parsed) ==
    OrElse(LastPassing(parsed, {i \in 1..Len(parsed) : HasStatus(parsed[i])}),
           LastPassing(parsed, {i \in 1..Len(parsed) : IsDict(parsed[i])}))

BraceStrategy(text) ==
    BraceLoops([i \in 1..Len(_extract_brace_candidates(text)) |->
                   json_loads(_extract_brace_candidates(text)[i])])

FallbackNote == <<"RLM returned free-form text instead of JSON. Content may need manual review.">>

\* Strategy 6: the free-form text wrapped as a PARTIAL record.
FallbackRecord(stripped) ==
    PyDict(<< [k |-> "status", v |-> PyStr(<<"PARTIAL">>)],
              [k |-> "answer", v |-> PyStr(stripped)],
              [k |-> "filled_template", v |-> PyStr(<<>>)],
              [k |-> "evidence", v |-> PyList(<<>>)],
              [k |-> "confidence", v |-> PyStr(<<"LOW">>)],
              [k |-> "notes", v |-> PyStr(FallbackNote)] >>)

MinFallbackLen == 20

FallbackStrategy(stripped) ==
    IF TextLen(stripped) > MinFallbackLen THEN ReturnDict(FallbackRecord(stripped))
    ELSE ReturnNone

\* Strategy 3
FenceResult(m) == IF m.found THEN DictOrNone(json_loads(m.inner)) ELSE ReturnNone

FenceStrategy(text) == FenceResult(md_match(text))

\* Strategy 1
DirectStrategy(stripped) == DictOrNone(json_loads(stripped))

\* Strategy 2: only ValueError and SyntaxError are caught around literal_eval
LiteralOutcome(r) ==
    IF ~r.ok /\ r.exc.type \notin {"ValueError", "SyntaxError"} THEN Raise(r.exc)
    ELSE DictOrNone(r)

LiteralStrategy(stripped) == LiteralOutcome(literal_eval(stripped))

parse_extraction_json(text) ==
    IF text = <<>> THEN ReturnNone
    ELSE OrElse(DirectStrategy(Strip(text)),
         OrElse(LiteralStrategy(Strip(text)),
         OrElse(FenceStrategy(text),
         OrElse(BraceStrategy(text),
                FallbackStrategy(Strip(text))))))

-----------------------------------------------------------------------------
(* Inputs of the recovery parser: texts built from a few fragments *)

MaxFrags == 3

Fragments ==
    { <<"{", "\"status\":", "\"FOUND\"", "}">>,
      <<"{", "\"status\":", "\"PARTIAL\"", "}">>,
      <<"{", "\"answer\":", "\"x\"", "}">>,
      <<"{", "\"answer\":", "null", "}">>,
      <<"{", "'status':", "'FOUND'", "}">>,
      <<"{", "{", "\"status\":", "\"FOUND\"", "}", "}">>,
      <<"FENCE", "json", "\n", "{", "\"answer\":", "\"x\"", "}", "\n", "FENCE">>,
      <<"{">>, <<"}">>, <<"[">>, <<"]">>, <<",">>,
      <<"FENCE">>, <<"\n">>, <<"\n", "\n">>,
      <<"The answer was not found.">> }

RECURSIVE Concat(_)
Concat(frags) == IF frags = <<>> THEN <<>> ELSE Head(frags) \o Concat(Tail(frags))

Texts == {Concat(fs) : fs \in UNION {[1..n -> Fragments] : n \in 0..MaxFrags}}

RecIdle ==
    /\ raw = <<>>
    /\ rec_pc = "idle"
    /\ rec_out = ReturnNone
    /\ candidates = <<>>

\* parse_extraction_json reaches "candidates = _extract_brace_candidates(raw)":
\* the text is not empty and strategies 1 to 3 returned nothing and raised
\* nothing.
ReachesBraceScan(text) ==
    /\ text # <<>>
    /\ OrElse(DirectStrategy(Strip(text)),
              OrElse(LiteralStrategy(Strip(text)), FenceStrategy(text))).kind = "None"

Recover ==
    /\ rec_pc = "ready"
    /\ rec_out' = parse_extraction_json(raw)
    /\ candidates' = IF ReachesBraceScan(raw) THEN _extract_brace_candidates(raw) ELSE <<>>
    /\ rec_pc' = "done"
    /\ UNCHANGED raw

-----------------------------------------------------------------------------
(* Tags: a tag is the sequence of its words and of the blanks between them *)

\* str.lower() of one token: a word or a single character
Lower(w) ==
    CASE w = "Standard" -> "standard"
      [] w = "Text" -> "text"
      [] w = "Not" -> "not"
      [] w = "In" -> "in"
      [] w = "Protocol" -> "protocol"
      [] w = "Easy" -> "easy"
      [] w = "Moderate" -> "moderate"
      [] w = "Complex" -> "complex"
      [] w = "Mapping" -> "mapping"
      [] w = "Potentially" -> "potentially"
      [] w = "A" -> "a" [] w = "B" -> "b" [] w = "C" -> "c" [] w = "D" -> "d"
      [] w = "E" -> "e" [] w = "F" -> "f" [] w = "G" -> "g" [] w = "H" -> "h"
      [] w = "I" -> "i" [] w = "J" -> "j" [] w = "K" -> "k" [] w = "L" -> "l"
      [] w = "M" -> "m" [] w = "N" -> "n" [] w = "O" -> "o" [] w = "P" -> "p"
      [] w = "Q" -> "q" [] w = "R" -> "r" [] w = "S" -> "s" [] w = "T" -> "t"
      [] w = "U" -> "u" [] w = "V" -> "v" [] w = "W" -> "w" [] w = "X" -> "x"
      [] w = "Y" -> "y" [] w = "Z" -> "z"
      [] OTHER -> w

lower(text) == [i \in 1..Len(text) |-> Lower(text[i])]

\* Python's "kw in text" for strings
Contains(text, kw) ==
    \E i \in 0..(Len(text) - Len(kw)) : SubSeq(text, i + 1, i + Len(kw)) = kw

RECURSIVE Join(_, _)
\* sep.join(parts)
Join(sep, parts) ==
    IF parts = <<>> THEN <<>>
    ELSE IF Len(parts) = 1 THEN Head(parts)
    ELSE Join(sep, SubSeq(parts, 1, Len(parts) \div 2)) \o sep
         \o Join(sep, SubSeq(parts, Len(parts) \div 2 + 1, Len(parts)))

KwStandardText == <<"standard", " ", "text">>
KwNotInProtocol == <<"not", " ", "in", " ", "protocol">>
KwEasyMapping == <<"easy", " ", "mapping">>
KwModerateMapping == <<"moderate", " ", "mapping">>
KwComplexMapping == <<"complex", " ", "mapping">>
KwPotentially == <<"potentially", " ", "in", " ", "protocol">>

\* _classify_availability with a partially available item not marked as in
\* the protocol.
ClassifyPartialUnavailable(tags) ==
    LET tags_lower == [i \in 1..Len(tags) |-> lower(tags[i])]
        joined == Join(<<" ">>, tags_lower)
        has_not_in == Contains(joined, KwNotInProtocol)
        has_mapping == \E kw \in {KwEasyMapping, KwModerateMapping, KwComplexMapping} :
                          Contains(joined, kw)
        has_standard == Contains(joined, KwStandardText)
        has_potentially == Contains(joined, KwPotentially)
    IN
    IF has_standard THEN <<TRUE, FALSE, TRUE>>
    ELSE IF has_not_in /\ ~has_mapping /\ ~has_potentially THEN <<FALSE, FALSE, FALSE>>
    ELSE IF has_not_in /\ (has_mapping \/ has_potentially) THEN <<FALSE, TRUE, FALSE>>
    ELSE <<TRUE, FALSE, FALSE>>

_classify_availability(tags) ==
    LET tags_lower == [i \in 1..Len(tags) |-> lower(tags[i])]
        joined == Join(<<" ">>, tags_lower)
        has_not_in == Contains(joined, KwNotInProtocol)
        has_mapping == \E kw \in {KwEasyMapping, KwModerateMapping, KwComplexMapping} :
                          Contains(joined, kw)
        has_standard == Contains(joined, KwStandardText)
        has_potentially == Contains(joined, KwPotentially)
    IN
    IF has_standard THEN <<TRUE, FALSE, TRUE>>
    ELSE IF has_not_in /\ ~has_mapping /\ ~has_potentially THEN <<FALSE, FALSE, FALSE>>
    ELSE IF has_not_in /\ (has_mapping \/ has_potentially) THEN <<TRUE, TRUE, FALSE>>
    ELSE <<TRUE, FALSE, FALSE>>

\* get_complexity_label with each keyword looked for in every tag before the
\* next keyword is tried.
LabelByKeywordFirst(variable) ==
    LET tags == variable.complexity
        has(kw) == \E i \in 1..Len(tags) : Contains(lower(tags[i]), kw)
    IN
    IF has(<<"easy">>) THEN "Easy"
    ELSE IF has(<<"moderate">>) THEN "Moderate"
    ELSE IF has(KwComplexMapping) THEN "Complex"
    ELSE IF has(KwPotentially) THEN "Moderate"
    ELSE IF ~variable.is_in_protocol THEN "Not in protocol"
    ELSE "Moderate"

\* TemplateVariable.get_complexity_label
get_complexity_label(variable) ==
    LET tags == variable.complexity
        cl(i) == lower(tags[i])
        hit(i) == \/ Contains(cl(i), <<"easy">>)
                  \/ Contains(cl(i), <<"moderate">>)
                  \/ Contains(cl(i), KwComplexMapping)
                  \/ Contains(cl(i), KwPotentially)
        hits == {i \in 1..Len(tags) : hit(i)}
        first == CHOOSE i \in hits : \A j \in hits : i <= j
    IN
    IF hits # {}
    THEN IF Contains(cl(first), <<"easy">>) THEN "Easy"
         ELSE IF Contains(cl(first), <<"moderate">>) THEN "Moderate"
         ELSE IF Contains(cl(first), KwComplexMapping) THEN "Complex"
         ELSE "Moderate"
    ELSE IF ~variable.is_in_protocol THEN "Not in protocol"
    ELSE "Moderate"

MaxTags == 3

TagPool ==
    { <<"Standard", " ", "text">>, <<"standard">>, <<"text">>,
      <<"Not", " ", "in", " ", "protocol">>, <<"not", " ", "in">>, <<"protocol">>,
      <<"Easy", " ", "mapping">>, <<"easy">>, <<"mapping">>,
      <<"Complex", " ", "mapping">>, <<"Moderate", " ", "Mapping">>,
      <<"Potentially", " ", "in", " ", "protocol">>, <<"potentially", " ", "in">>,
      <<"Complex", " ", "mapping", " ", "easy">>,
      <<"complex", " ", "mapping", " ", "moderate">>,
      <<>> }

TagLists == UNION {[1..n -> TagPool] : n \in 0..MaxTags}

ClsIdle ==
    /\ complexity = <<>>
    /\ cls_pc = "idle"
    /\ cls_out = <<TRUE, FALSE, FALSE>>
    /\ lbl_is_in_protocol = TRUE
    /\ lbl_pc = "idle"
    /\ lbl_out = ""

Classify ==
    /\ cls_pc = "ready"
    /\ cls_out' = _classify_availability(complexity)
    /\ cls_pc' = "done"
    /\ UNCHANGED <<complexity, lbl_is_in_protocol, lbl_pc, lbl_out>>

\* one call of get_complexity_label, on a variable with these tags
Label ==
    /\ lbl_pc = "ready"
    /\ lbl_out' = get_complexity_label([complexity |-> complexity,
                                        is_in_protocol |-> lbl_is_in_protocol])
    /\ lbl_pc' = "done"
    /\ UNCHANGED <<complexity, lbl_is_in_protocol, cls_pc, cls_out>>

-----------------------------------------------------------------------------
(* types.py: the records.  heading and sub_section are copied from the     *)
(* variable unchanged and are left out.                                    *)

TemplateVariable(section_id, complexity_, flags, required_text) ==
    [section_id |-> section_id, complexity |-> complexity_,
     is_in_protocol |-> flags[1], partially_in_protocol |-> flags[2],
     is_standard_text |-> flags[3], required_text |-> required_text]

Evidence(quote, page, section) == [quote |-> quote, page |-> page, section |-> section]

\* Every field holds a Python value: the dataclass checks no type.
ExtractionResult(section_id, status, answer, filled_template, evidence, confidence, notes, raw_response, error) ==
    [section_id |-> section_id, status |-> status, answer |-> answer,
     filled_template |-> filled_template, evidence |-> evidence,
     confidence |-> confidence, notes |-> notes,
     raw_response |-> raw_response, error |-> error]

NoGrade == [some |-> FALSE, tenths |-> 0]
Grade(tenths) == [some |-> TRUE, tenths |-> tenths]

ValidationResult(section_id, quotes_verified, reading_grade_level, issues) ==
    [section_id |-> section_id, quotes_verified |-> quotes_verified,
     reading_grade_level |-> reading_grade_level, issues |-> issues]

-----------------------------------------------------------------------------
(* extract.py: ExtractionEngine *)

_make_standard_result(variable) ==
    ExtractionResult(PyStr(variable.section_id), PyStr(<<"STANDARD_TEXT">>),
                     PyStr(variable.required_text), PyStr(variable.required_text),
                     <<>>, PyStr(<<"HIGH">>),
                     PyStr(<<"Standard required text - no extraction needed.">>),
                     PyStr(<<>>), PyNone)

_make_skipped_result(variable) ==
    ExtractionResult(PyStr(variable.section_id), PyStr(<<"SKIPPED">>),
                     PyStr(<<>>), PyStr(<<>>), <<>>, PyStr(<<"N/A">>),
                     PyStr(<<"Section marked as 'Not in protocol - requires manual entry'.">>),
                     PyStr(<<>>), PyNone)

\* Route with the availability test made before the standard-text test.
RouteSkipFirst(variable) ==
    IF ~variable.is_in_protocol /\ ~variable.partially_in_protocol THEN "skipped"
    ELSE IF variable.is_standard_text THEN "standard"
    ELSE "rlm"

\* Route with the second "not" of the availability test dropped.
RouteDroppedNot(variable) ==
    IF variable.is_standard_text THEN "standard"
    ELSE IF ~variable.is_in_protocol /\ variable.partially_in_protocol THEN "skipped"
    ELSE "rlm"

\* The branch extract_variable takes.
Route(variable) ==
    IF variable.is_standard_text THEN "standard"
    ELSE IF ~variable.is_in_protocol /\ ~variable.partially_in_protocol THEN "skipped"
    ELSE "rlm"

\* budget_map.get(label, 12)
budget_map(label) ==
    CASE label = "Easy" -> 10
      [] label = "Moderate" -> 15
      [] label = "Complex" -> max_iterations
      [] label = "Not in protocol" -> 8
      [] OTHER -> 12

\* The budget of the label handed on as it is.
Unclamped(a, b) == a

min(a, b) == IF a < b THEN a ELSE b

_iterations_for(variable) == min(budget_map(get_complexity_label(variable)), max_iterations)

\* str(v)
py_str(v) ==
    CASE v.t \in {"str", "num"} -> v.s
      [] v.t = "none" -> <<"N", "o", "n", "e">>
      [] OTHER -> <<"repr">>

\* The members of v that a for loop yields, where they can be dicts: the
\* members of a str and the keys of a dict are strings.
IterItems(v) == IF v.t \in {"list", "tuple", "set"} THEN v.items ELSE <<>>

\* iter(v) raises TypeError for None and for a number.
Iterable(v) == v.t \in {"list", "tuple", "set", "dict", "str"}

RECURSIVE EvidenceOf(_)
\* The loop of _parse_response over data.get("evidence", []).
EvidenceOf(items) ==
    IF items = <<>> THEN <<>>
    ELSE LET e == Head(items) IN
         IF isinstance_dict(e)
         THEN <<Evidence(py_str(DictGet(e, "quote", PyStr(<<>>))),
                         py_str(DictGet(e, "page", PyStr(<<>>))),
                         py_str(DictGet(e, "section", PyStr(<<>>))))>>
              \o EvidenceOf(Tail(items))
         ELSE EvidenceOf(Tail(items))

NoResult ==
    ExtractionResult(PyNone, PyNone, PyNone, PyNone, <<>>, PyNone, PyNone, PyNone, PyNone)

Returned(result) == [kind |-> "return", result |-> result, exc |-> "", msg |-> <<>>]
Raised(exc, msg) == [kind |-> "raise", result |-> NoResult, exc |-> exc, msg |-> msg]

\* _parse_response once parse_extraction_json has ended with out
ResultFrom(out, text, variable) ==
    LET data == out.v
        ev == DictGet(data, "evidence", PyList(<<>>))
    IN
    IF out.kind = "raise" THEN Raised(out.exc.type, out.exc.msg)
    ELSE IF out.kind = "None"
    THEN Returned(ExtractionResult(PyStr(variable.section_id), PyStr(<<"ERROR">>),
                                   PyStr(<<>>), PyStr(<<>>), <<>>, PyStr(<<"LOW">>),
                                   PyStr(<<"Failed to parse JSON from RLM response.">>),
                                   PyStr(text), PyStr(<<"JSON parse failure">>)))
    ELSE IF ~Iterable(ev)
    THEN Raised("TypeError", <<"'", IF ev.t = "none" THEN "NoneType" ELSE "int",
                               "' object is not iterable">>)
    ELSE Returned(ExtractionResult(
                     DictGet(data, "section_id", PyStr(variable.section_id)),
                     DictGet(data, "status", PyStr(<<"ERROR">>)),
                     DictGet(data, "answer", PyStr(<<>>)),
                     DictGet(data, "filled_template", PyStr(<<>>)),
                     EvidenceOf(IterItems(ev)),
                     DictGet(data, "confidence", PyStr(<<"LOW">>)),
                     DictGet(data, "notes", PyStr(<<>>)),
                     PyStr(text), PyNone))

\* _parse_response that wraps a text it cannot parse as free-form content.
ParseResponseWrappingFailures(text, variable) ==
    ResultFrom(OrElse(parse_extraction_json(text), ReturnDict(FallbackRecord(text))),
               text, variable)

_parse_response(text, variable) == ResultFrom(parse_extraction_json(text), text, variable)

\* "except Exception": the exception types the handler of
\* _run_rlm_extraction catches; KeyboardInterrupt is not among them.
ExceptionTypes ==
    {"RuntimeError", "TimeoutError", "ValueError", "TypeError", "AttributeError",
     "RecursionError"}

\* A handler that names the parsing errors only.
CaughtParseErrorsOnly(exc) == exc \in {"ValueError", "TypeError"}

CaughtByExcept(exc) == exc \in ExceptionTypes

\* The result built by the except branch of _run_rlm_extraction.
ExceptResult(variable, exc, msg) ==
    ExtractionResult(PyStr(variable.section_id), PyStr(<<"ERROR">>),
                     PyStr(<<>>), PyStr(<<>>), <<>>, PyStr(<<"LOW">>), PyStr(<<>>),
                     PyStr(<<>>), PyStr(<<exc, ": ">> \o msg))

-----------------------------------------------------------------------------
(* validate.py *)

\* verify_quote: norm_q[:120], len(prefix) > 30, len(p.strip()) > 15
PrefixLen == 120
MinPrefixLen == 30
MinPhraseLen == 15
\* check_reading_level: fewer than 10 words
MinWords == 10
\* READING_LEVEL_WARN = 8.0, in tenths of a grade
READING_LEVEL_WARN == 80
\* validate_extractions: ev.quote[:80]
ShortLen == 80

IsSpace == {" ", "\n", "\t"}

\* The pieces of two adjacent stretches of a text: the last piece of the
\* left stretch goes on in the first piece of the right one.
MergePieces(l, r) == SubSeq(l, 1, Len(l) - 1) \o <<l[Len(l)] \o r[1]>> \o Tail(r)

RECURSIVE SplitOn(_, _)
\* The pieces of text between separator characters, the empty pieces
\* included, as re.split gives them: the text is split half by half.
SplitOn(text, seps) ==
    IF text = <<>> THEN << <<>> >>
    ELSE IF Len(text) = 1 THEN (IF text[1] \in seps THEN << <<>>, <<>> >> ELSE <<text>>)
    ELSE MergePieces(SplitOn(SubSeq(text, 1, Len(text) \div 2), seps),
                     SplitOn(SubSeq(text, Len(text) \div 2 + 1, Len(text)), seps))

\* text.split(): the pieces between whitespace characters that are not empty
split(text) == SelectSeq(SplitOn(text, IsSpace), LAMBDA piece : piece # <<>>)

_normalise(text) == Join(<<" ">>, split(lower(text)))

\* text[:n], for text one token per character
Take(text, n) == SubSeq(text, 1, IF Len(text) < n THEN Len(text) ELSE n)

\* QuoteMatches that asks for more than half of the phrases.
QuoteMatchesMajority(norm_q, norm_p) ==
    LET prefix == Take(norm_q, PrefixLen)
        IsStop == {",", "."}
        pieces == SplitOn(norm_q, IsStop)
        kept == {i \in 1..Len(pieces) : TextLen(Strip(pieces[i])) > MinPhraseLen}
        found == {i \in kept : Contains(norm_p, Strip(pieces[i]))}
    IN
    IF Contains(norm_p, norm_q) THEN TRUE
    ELSE IF TextLen(prefix) > MinPrefixLen /\ Contains(norm_p, prefix) THEN TRUE
    ELSE IF kept # {} /\ 2 * Cardinality(found) > Cardinality(kept) THEN TRUE
    ELSE FALSE

\* verify_quote from its strategy 1 on
QuoteMatches(norm_q, norm_p) ==
    LET prefix == Take(norm_q, PrefixLen)
        IsStop == {",", "."}
        pieces == SplitOn(norm_q, IsStop)
        kept == {i \in 1..Len(pieces) : TextLen(Strip(pieces[i])) > MinPhraseLen}
        found == {i \in kept : Contains(norm_p, Strip(pieces[i]))}
    IN
    IF Contains(norm_p, norm_q) THEN TRUE
    ELSE IF TextLen(prefix) > MinPrefixLen /\ Contains(norm_p, prefix) THEN TRUE
    ELSE IF kept # {} /\ 2 * Cardinality(found) >= Cardinality(kept) THEN TRUE
    ELSE FALSE

\* verify_quote without its test for an empty quote or protocol text.
VerifyQuoteUnguarded(quote, protocol_text) ==
    QuoteMatches(_normalise(quote), _normalise(protocol_text))

\* the threshold parameter of verify_quote is not used by its body
verify_quote(quote, protocol_text) ==
    IF quote = <<>> \/ protocol_text = <<>> THEN FALSE
    ELSE QuoteMatches(_normalise(quote), _normalise(protocol_text))

MaxPieces == 3

\* Quotes and protocol texts are built from a few pieces, one token per
\* character.
QuotePieces == { <<" ">>, <<"\n">>, <<"A">>, <<"a">>, <<"b">> }

\* A run of PrefixLen characters of a long protocol text: "the sponsor will
\* pay", 20 characters, over and over.
LongRun == Concat([i \in 1..(PrefixLen \div 20) |-> Take(lower(ProtocolText), 20)])

\* Longer quotes are built from phrases of more than MinPhraseLen
\* characters, one that is in the long protocol text and one that is not,
\* from the separators of the phrase split and from the long run.
PhrasePieces == { Take(LongRun, 20), QuoteUngrounded, <<",">>, <<".">>, LongRun }

VqIdle ==
    /\ vq_quote = <<>>
    /\ vq_text = <<>>
    /\ vq_pc = "idle"
    /\ vq_out = FALSE
    /\ vq_issues = <<>>

\* bool(v)
Truthy(v) ==
    CASE v.t = "none" -> FALSE
      [] v.t = "num" -> v.s # <<"0">>
      [] v.t = "str" -> v.s # <<>>
      [] OTHER -> v.items # <<>>

\* check_reading_level(text) with the textstat package ts; grades are in
\* tenths.  A value that is not a str has no split().
check_reading_level(text, ts) ==
    IF ~Truthy(text) THEN [exc |-> "", grade |-> NoGrade]
    ELSE IF text.t # "str" THEN [exc |-> "AttributeError", grade |-> NoGrade]
    ELSE IF Len(split(text.s)) < MinWords THEN [exc |-> "", grade |-> NoGrade]
    ELSE IF ~ts.installed THEN [exc |-> "", grade |-> NoGrade]
    ELSE [exc |-> "", grade |-> Grade(ts.tenths)]

\* The skip list without "SKIPPED".
SkipStatusesWithoutSkipped ==
    {PyStr(<<"ERROR">>), PyStr(<<"NOT_FOUND">>), PyStr(<<"STANDARD_TEXT">>)}

SkipStatuses ==
    {PyStr(<<"SKIPPED">>), PyStr(<<"ERROR">>), PyStr(<<"NOT_FOUND">>),
     PyStr(<<"STANDARD_TEXT">>)}

\* str.replace("\n", " ")
ReplaceNewlines(text) == [i \in 1..Len(text) |-> IF text[i] = "\n" THEN " " ELSE text[i]]

QuoteIssue(quote) ==
    <<"Quote not verified in protocol: ", "\"">>
    \o ReplaceNewlines(Take(quote, ShortLen)) \o <<"...", "\"">>

\* f"Reading level ({grade:.1f}) exceeds Grade {READING_LEVEL_WARN:.0f} target."
ReadingIssue(tenths) ==
    <<"Reading level (",
      CASE tenths = 62 -> "6.2" [] tenths = 95 -> "9.5" [] OTHER -> "n.n",
      ") exceeds Grade ", "8", " target.">>

RECURSIVE QuoteIssues(_, _)
\* one issue for each quote whose flag is False
QuoteIssues(quotes, flags) ==
    IF quotes = <<>> THEN <<>>
    ELSE (IF Head(flags) THEN <<>> ELSE <<QuoteIssue(Head(quotes))>>)
         \o QuoteIssues(Tail(quotes), Tail(flags))

\* One turn of the evidence loop of validate_extractions: verify_quote is
\* called on the quote and an issue is appended when it returns False.
VerifyCall ==
    /\ vq_pc = "ready"
    /\ vq_out' = verify_quote(vq_quote, vq_text)
    /\ vq_issues' = QuoteIssues(<<vq_quote>>, <<verify_quote(vq_quote, vq_text)>>)
    /\ vq_pc' = "done"
    /\ UNCHANGED <<vq_quote, vq_text, run_vars, rec_vars, cls_vars>>

\* The quote pass of one extraction: quotes_verified and its issues.
QuotePass(quotes, flags) ==
    [quotes_verified |-> flags,
     issues |-> QuoteIssues(quotes, flags)]

\* Graded with the reading-level issue put before the quote issues.
GradedReadingFirst(ext, quotes, level) ==
    IF level.exc # ""
    THEN [exc |-> level.exc, v |-> ValidationResult(ext.section_id, <<>>, NoGrade, <<>>)]
    ELSE [exc |-> "",
          v |-> ValidationResult(ext.section_id, quotes.quotes_verified, level.grade,
                   (IF level.grade.some /\ level.grade.tenths > READING_LEVEL_WARN
                    THEN <<ReadingIssue(level.grade.tenths)>> ELSE <<>>)
                   \o quotes.issues)]

\* The ValidationResult of an extraction that is not skipped, from its quote
\* pass and the outcome of check_reading_level.
Graded(ext, quotes, level) ==
    IF level.exc # ""
    THEN [exc |-> level.exc, v |-> ValidationResult(ext.section_id, <<>>, NoGrade, <<>>)]
    ELSE [exc |-> "",
          v |-> ValidationResult(ext.section_id, quotes.quotes_verified, level.grade,
                   quotes.issues
                   \o (IF level.grade.some /\ level.grade.tenths > READING_LEVEL_WARN
                       THEN <<ReadingIssue(level.grade.tenths)>> ELSE <<>>))]

\* One turn of the loop of validate_extractions.
ValidateOne(ext, protocol_text, ts) ==
    IF ext.status \in SkipStatuses
    THEN [exc |-> "", v |-> ValidationResult(ext.section_id, <<>>, NoGrade, <<>>)]
    ELSE Graded(ext,
                QuotePass([i \in 1..Len(ext.evidence) |-> ext.evidence[i].quote],
                          [i \in 1..Len(ext.evidence) |->
                              verify_quote(ext.evidence[i].quote, protocol_text)]),
                check_reading_level(ext.answer, ts))

RECURSIVE ValidateFrom(_, _, _, _)
RECURSIVE ValidateRest(_, _, _, _, _)
ValidateFrom(exts, protocol_text, ts, acc) ==
    IF exts = <<>> THEN [exc |-> "", results |-> acc]
    ELSE ValidateRest(ValidateOne(Head(exts), protocol_text, ts),
                      Tail(exts), protocol_text, ts, acc)
\* the loop after one turn: an exception ends it
ValidateRest(one, exts, protocol_text, ts, acc) ==
    IF one.exc # "" THEN [exc |-> one.exc, results |-> <<>>]
    ELSE ValidateFrom(exts, protocol_text, ts, Append(acc, one.v))

validate_extractions(exts, protocol_text, ts) == ValidateFrom(exts, protocol_text, ts, <<>>)

-----------------------------------------------------------------------------
(* pipeline.py *)

Hashable(v) == v.t \notin {"list", "dict", "set"}

CountStatus(exts, name) ==
    Cardinality({i \in 1..Len(exts) : exts[i].status = PyStr(<<name>>)})

RECURSIVE SumIssues(_)
SumIssues(vals) ==
    IF vals = <<>> THEN 0 ELSE Len(Head(vals).issues) + SumIssues(Tail(vals))

NoSummary ==
    [total_sections |-> 0, found |-> 0, partial |-> 0, not_found |-> 0, skipped |-> 0,
     standard_text |-> 0, errors |-> 0, validation_issues |-> 0]

\* elapsed_seconds is left out.  counts[e.status] raises TypeError for a
\* status that cannot be hashed.
_build_summary(exts, vals) ==
    IF \E i \in 1..Len(exts) : ~Hashable(exts[i].status)
    THEN [exc |-> "TypeError", v |-> NoSummary]
    ELSE [exc |-> "",
          v |-> [total_sections |-> Len(exts),
                 found |-> CountStatus(exts, "FOUND"),
                 partial |-> CountStatus(exts, "PARTIAL"),
                 not_found |-> CountStatus(exts, "NOT_FOUND"),
                 skipped |-> CountStatus(exts, "SKIPPED"),
                 standard_text |-> CountStatus(exts, "STANDARD_TEXT"),
                 errors |-> CountStatus(exts, "ERROR"),
                 validation_issues |-> SumIssues(vals)]]

MaxItems == 2

\* section_id of the i-th row of the registry
SectionId(i) == <<"s", CASE i = 1 -> "1" [] i = 2 -> "2" [] i = 3 -> "3" [] OTHER -> "n">>

RequiredText == <<"You may leave the study at any time.">>


\* The "Content Complexity" cells of the registry rows.
ItemKinds ==
    { << <<"Standard", " ", "text">> >>,
      << <<"Not", " ", "in", " ", "protocol">> >>,
      << <<"Easy", " ", "mapping">> >>,
      << <<"Not", " ", "in", " ", "protocol">>, <<"Complex", " ", "mapping">> >> }

\* load_template_registry: one TemplateVariable per row, its flags from
\* _classify_availability.
load_template_registry(rows) ==
    [i \in 1..Len(rows) |->
        TemplateVariable(SectionId(i), rows[i], _classify_availability(rows[i]),
                         RequiredText)]

Obj(members) == <<"{">> \o members \o <<"}">>
EvidenceMember(quoteTok) == <<"\"evidence\":", "[", "{", "\"quote\":", quoteTok, "}", "]">>

\* What completion.response can be: the texts the agent returns.
Responses ==
    { Obj(<<"\"status\":", "\"FOUND\"", ",", "\"answer\":", "\"x\"", ",">>
          \o EvidenceMember("\"the SPONSOR will   pay all costs\"")),
      Obj(<<"\"status\":", "\"PARTIAL\"", ",", "\"answer\":",
            "\"You will visit the clinic ten times in all this year.\"", ",">>
          \o EvidenceMember("\"the moon is cheese\"")),
      Obj(<<"\"status\":", "\"FOUND\"", ",", "\"answer\":",
            "\"You will visit the clinic ten times in all this year.\"", ",",
            "\"evidence\":", "[",
            "{", "\"quote\":", "\"the moon is cheese\"", "}", ",",
            "{", "\"quote\":", "\"the SPONSOR will   pay all costs\"", "}", ",",
            "{", "\"quote\":", "\"the moon is cheese\"", "}", "]">>),
      Obj(<<"\"status\":", "\"DONE\"">>),
      Obj(<<"\"status\":", "\"SKIPPED\"", ",">>
          \o EvidenceMember("\"the moon is cheese\"")),
      Obj(<<"\"status\":", "\"FOUND\"", ",", "\"evidence\":", "null">>),
      Obj(<<"\"section_id\":", "\"7\"", ",", "\"status\":", "\"NOT_FOUND\"">>),
      Obj(<<"\"status\":", "\"FOUND\"", ",", "\"answer\":", "5">>),
      Obj(<<"\"answer\":", "\"x\"">>),
      <<"{">> \o Obj(<<"\"status\":", "\"FOUND\"">>) \o <<"}">>,
      <<"The answer was not found.">>,
      <<"Done">>,
      <<>> }

\* What the agent capability can raise: type and message.
AgentFailures ==
    { [type |-> "RuntimeError", msg |-> <<"backend unavailable">>],
      [type |-> "TimeoutError", msg |-> <<"timed out">>] }

NoCall == [item |-> 0, kind |-> "none", exc |-> "", msg |-> <<>>, text |-> <<>>]

RunIdle ==
    /\ variables = <<>>
    /\ textstat = [installed |-> FALSE, tenths |-> 0]
    /\ max_iterations = 20
    /\ pc = "idle"
    /\ idx = 1
    /\ extractions = <<>>
    /\ validations = <<>>
    /\ summary = NoSummary
    /\ interrupted = FALSE
    /\ run_exc = ""
    /\ rlm_log = <<>>
    /\ last_call = NoCall

\* run() up to the start of the loop: the registry is loaded and filtered (a
\* section filter that matches nothing leaves no variable) and the engine is
\* built.
RunInit ==
    /\ variables \in {load_template_registry(rows) :
                         rows \in UNION {[1..n -> ItemKinds] : n \in 0..MaxItems}}
    /\ textstat \in {[installed |-> FALSE, tenths |-> 0],
                      [installed |-> TRUE, tenths |-> 62],
                      [installed |-> TRUE, tenths |-> 95]}
    /\ max_iterations = 20
    /\ pc = "loop"
    /\ idx = 1
    /\ extractions = <<>>
    /\ validations = <<>>
    /\ summary = NoSummary
    /\ interrupted = FALSE
    /\ run_exc = ""
    /\ rlm_log = <<>>
    /\ last_call = NoCall

Init == RunInit /\ RecIdle /\ ClsIdle /\ VqIdle

AtItem == pc = "loop" /\ idx <= Len(variables)

\* extractions.append(result) and the next turn of the loop
AppendResult(result) ==
    /\ extractions' = Append(extractions, result)
    /\ idx' = idx + 1
    /\ pc' = "loop"

\* An exception leaves _run_rlm_extraction's try block: the except branch
\* builds the ERROR result, or the exception leaves extract_variable and
\* run(), whose loop catches KeyboardInterrupt only.
HandleException(exc, msg) ==
    IF CaughtByExcept(exc)
    THEN AppendResult(ExceptResult(variables[idx], exc, msg)) /\ UNCHANGED run_exc
    ELSE /\ pc' = "crashed"
         /\ run_exc' = exc
         /\ UNCHANGED <<extractions, idx>>

\* _parse_response returned or raised inside the try block
Deliver(out) ==
    IF out.kind = "return"
    THEN AppendResult(out.result) /\ UNCHANGED run_exc
    ELSE HandleException(out.exc, out.msg)

\* extract_variable for a standard-text or skipped item: no agent
RouteDirect ==
    /\ AtItem
    /\ Route(variables[idx]) # "rlm"
    /\ AppendResult(IF Route(variables[idx]) = "standard"
                    THEN _make_standard_result(variables[idx])
                    ELSE _make_skipped_result(variables[idx]))
    /\ last_call' = [NoCall EXCEPT !.item = idx, !.kind = "direct"]
    /\ UNCHANGED <<variables, textstat, max_iterations, validations, summary, interrupted, run_exc, rlm_log>>

\* RLM(...) raises
ConstructRaises ==
    /\ AtItem
    /\ Route(variables[idx]) = "rlm"
    /\ \E e \in AgentFailures :
          /\ HandleException(e.type, e.msg)
          /\ last_call' = [NoCall EXCEPT !.item = idx, !.kind = "raise",
                                         !.exc = e.type, !.msg = e.msg]
    /\ rlm_log' = Append(rlm_log, [item |-> idx, op |-> "RLM",
                                   max_iterations |-> _iterations_for(variables[idx])])
    /\ UNCHANGED <<variables, textstat, max_iterations, validations, summary, interrupted>>

\* RLM(...) returns an instance and rlm.completion(...) is called
AgentStart ==
    /\ AtItem
    /\ Route(variables[idx]) = "rlm"
    /\ pc' = "inflight"
    /\ rlm_log' = rlm_log \o
          << [item |-> idx, op |-> "RLM", max_iterations |-> _iterations_for(variables[idx])],
             [item |-> idx, op |-> "completion",
              max_iterations |-> _iterations_for(variables[idx])] >>
    /\ UNCHANGED <<variables, textstat, max_iterations, idx, extractions, validations, summary,
                   interrupted, run_exc, last_call>>

\* rlm.completion returns: _parse_response builds the result, or raises
\* inside the try block
AgentReturns ==
    /\ pc = "inflight"
    /\ \E text \in Responses :
          /\ Deliver(_parse_response(text, variables[idx]))
          /\ last_call' = [NoCall EXCEPT !.item = idx, !.kind = "return", !.text = text]
    /\ UNCHANGED <<variables, textstat, max_iterations, validations, summary, interrupted, rlm_log>>

\* rlm.completion raises and the item is tried again, a few times at most.
AgentRaisesThenRetries ==
    /\ pc = "inflight"
    /\ Len(rlm_log) < 6
    /\ pc' = "loop"
    /\ \E e \in AgentFailures :
          last_call' = [NoCall EXCEPT !.item = idx, !.kind = "raise",
                                      !.exc = e.type, !.msg = e.msg]
    /\ UNCHANGED <<variables, textstat, max_iterations, idx, extractions, validations,
                   summary, interrupted, run_exc, rlm_log>>

\* rlm.completion raises
AgentRaises ==
    /\ pc = "inflight"
    /\ \E e \in AgentFailures :
          /\ HandleException(e.type, e.msg)
          /\ last_call' = [NoCall EXCEPT !.item = idx, !.kind = "raise",
                                         !.exc = e.type, !.msg = e.msg]
    /\ UNCHANGED <<variables, textstat, max_iterations, validations, summary, interrupted, rlm_log>>

\* An interruption that is recorded while the loop goes on.
InterruptSwallowed ==
    /\ AtItem \/ pc = "inflight"
    /\ ~interrupted
    /\ interrupted' = TRUE
    /\ UNCHANGED <<variables, textstat, max_iterations, pc, idx, extractions, validations, summary,
                   run_exc, rlm_log, last_call>>

\* KeyboardInterrupt inside the try block of run(): before an item is
\* routed, or while its agent call is in flight.  It passes "except
\* Exception" and is caught around the loop.
Interrupt ==
    /\ AtItem \/ pc = "inflight"
    /\ pc' = "validate"
    /\ interrupted' = TRUE
    /\ last_call' = IF pc = "inflight"
                    THEN [NoCall EXCEPT !.item = idx, !.kind = "interrupted"]
                    ELSE last_call
    /\ UNCHANGED <<variables, textstat, max_iterations, idx, extractions, validations, summary,
                   run_exc, rlm_log>>

\* the for loop is exhausted
LoopEnd ==
    /\ pc = "loop"
    /\ idx > Len(variables)
    /\ pc' = "validate"
    /\ UNCHANGED <<variables, textstat, max_iterations, idx, extractions, validations, summary,
                   interrupted, run_exc, rlm_log, last_call>>

Validated(out) ==
    IF out.exc = ""
    THEN validations' = out.results /\ pc' = "summarise" /\ UNCHANGED run_exc
    ELSE pc' = "crashed" /\ run_exc' = out.exc /\ UNCHANGED validations

\* Stage 5 with the last extraction left out of the list it validates.
ValidateDropsLast ==
    /\ pc = "validate"
    /\ Validated(validate_extractions(SubSeq(extractions, 1, Len(extractions) - 1),
                                      ProtocolText, textstat))
    /\ UNCHANGED <<variables, textstat, max_iterations, idx, extractions, summary,
                   interrupted, rlm_log, last_call>>

\* Stage 5: validate_extractions(extractions, protocol.full_text)
Validate ==
    /\ pc = "validate"
    /\ Validated(validate_extractions(extractions, ProtocolText, textstat))
    /\ UNCHANGED <<variables, textstat, max_iterations, idx, extractions, summary, interrupted,
                   rlm_log, last_call>>

Summarised(out) ==
    IF out.exc = ""
    THEN summary' = out.v /\ pc' = "done" /\ UNCHANGED run_exc
    ELSE pc' = "crashed" /\ run_exc' = out.exc /\ UNCHANGED summary

\* Stage 6: _build_summary; the files are then written and run() returns
Summarise ==
    /\ pc = "summarise"
    /\ Summarised(_build_summary(extractions, validations))
    /\ UNCHANGED <<variables, textstat, max_iterations, idx, extractions, validations, interrupted,
                   rlm_log, last_call>>

Next ==
    \/ (RouteDirect /\ UNCHANGED <<rec_vars, cls_vars, vq_vars>>)
    \/ (ConstructRaises /\ UNCHANGED <<rec_vars, cls_vars, vq_vars>>)
    \/ (AgentStart /\ UNCHANGED <<rec_vars, cls_vars, vq_vars>>)
    \/ (AgentReturns /\ UNCHANGED <<rec_vars, cls_vars, vq_vars>>)
    \/ (AgentRaises /\ UNCHANGED <<rec_vars, cls_vars, vq_vars>>)
    \/ (Interrupt /\ UNCHANGED <<rec_vars, cls_vars, vq_vars>>)
    \/ (LoopEnd /\ UNCHANGED <<rec_vars, cls_vars, vq_vars>>)
    \/ (Validate /\ UNCHANGED <<rec_vars, cls_vars, vq_vars>>)
    \/ (Summarise /\ UNCHANGED <<rec_vars, cls_vars, vq_vars>>)

Spec == Init /\ [][Next]_vars

\* A step of run() while it has neither returned nor raised; every step of
\* Next is one that moves pc or idx.
Advances ==
    /\ pc \in {"loop", "inflight", "validate", "summarise"}
    /\ pc' \in {"loop", "inflight", "validate", "summarise", "done", "crashed"}
    /\ idx' \in {idx, idx + 1}

\* run() is sequential code: it takes its next step whenever it has one, an
\* agent call that returns or raises in finite time included.
FairSpec == Spec /\ WF_<<pc, idx>>(Advances)

\* The values of max_iterations an ExtractionEngine is built with: below,
\* between, above and equal to entries of the budget map.
MaxIterationsChoices == {5, 8, 9, 12, 20, 30}

\* A caller of extract_variable: one call, on any TemplateVariable the
\* dataclass can hold, of an engine built with any max_iterations.  Besides
\* the cells of the registry rows the tags are lists whose keywords run
\* across two tags or stand in a tag without "mapping", and the empty list.
RouteInit ==
    /\ variables \in {<<TemplateVariable(SectionId(1), tags, flags, text)>> :
                         tags \in ItemKinds \cup
                             { << <<"not", " ", "in">>, <<"protocol">> >>,
                               << <<"Not", " ", "in", " ", "protocol">>, <<"easy">> >>,
                               << <<"Not", " ", "in", " ", "protocol">>,
                                  <<"potentially", " ", "in">>, <<"protocol">> >>,
                               <<>> },
                         flags \in [1..3 -> BOOLEAN],
                         text \in {RequiredText, <<>>}}
    /\ textstat = [installed |-> FALSE, tenths |-> 0]
    /\ max_iterations \in MaxIterationsChoices
    /\ pc = "loop"
    /\ idx = 1
    /\ extractions = <<>>
    /\ validations = <<>>
    /\ summary = NoSummary
    /\ interrupted = FALSE
    /\ run_exc = ""
    /\ rlm_log = <<>>
    /\ last_call = NoCall
    /\ RecIdle
    /\ ClsIdle
    /\ VqIdle

RouteNext ==
    \/ (RouteDirect /\ UNCHANGED <<rec_vars, cls_vars, vq_vars>>)
    \/ (ConstructRaises /\ UNCHANGED <<rec_vars, cls_vars, vq_vars>>)
    \/ (AgentStart /\ UNCHANGED <<rec_vars, cls_vars, vq_vars>>)
    \/ (AgentReturns /\ UNCHANGED <<rec_vars, cls_vars, vq_vars>>)
    \/ (AgentRaises /\ UNCHANGED <<rec_vars, cls_vars, vq_vars>>)

SpecRoute == RouteInit /\ [][RouteNext]_vars

\* A caller of parse_extraction_json: one call on a text.
RecInit ==
    /\ raw \in Texts
    /\ rec_pc = "ready"
    /\ rec_out = ReturnNone
    /\ candidates = <<>>
    /\ RunIdle
    /\ ClsIdle
    /\ VqIdle

RecNext == Recover /\ UNCHANGED <<run_vars, cls_vars, vq_vars>>

SpecRecover == RecInit /\ [][RecNext]_vars

\* A caller of _classify_availability and of get_complexity_label: one call
\* of each on a list of tags, the second on a variable with either value of
\* is_in_protocol.
ClsInit ==
    /\ complexity \in TagLists
    /\ cls_pc = "ready"
    /\ cls_out = <<TRUE, FALSE, FALSE>>
    /\ lbl_is_in_protocol \in BOOLEAN
    /\ lbl_pc = "ready"
    /\ lbl_out = ""
    /\ RunIdle
    /\ RecIdle
    /\ VqIdle

ClsNext ==
    \/ (Classify /\ UNCHANGED <<run_vars, rec_vars, vq_vars>>)
    \/ (Label /\ UNCHANGED <<run_vars, rec_vars, vq_vars>>)

SpecClassify == ClsInit /\ [][ClsNext]_vars

\* A caller of verify_quote: one call on a quote and a protocol text.  Both
\* are built from the short pieces, or the protocol text is the long run and
\* a period and the quote is built from the short pieces or from the
\* phrases.
VqInit ==
    /\ \/ /\ vq_quote \in {Concat(ps) : ps \in UNION {[1..n -> QuotePieces] : n \in 0..MaxPieces}}
          /\ vq_text \in {Concat(ps) : ps \in UNION {[1..n -> QuotePieces] : n \in 0..MaxPieces}}
       \/ /\ vq_quote \in {Concat(ps) : ps \in UNION {[1..n -> QuotePieces \cup PhrasePieces] :
                                                       n \in 0..(MaxPieces - 1)}}
                           \cup {Concat(ps) : ps \in UNION {[1..n -> PhrasePieces] : n \in 0..MaxPieces}}
          /\ vq_text = LongRun \o <<".">>
    /\ vq_pc = "ready"
    /\ vq_out = FALSE
    /\ vq_issues = <<>>
    /\ RunIdle
    /\ RecIdle
    /\ ClsIdle

SpecVerify == VqInit /\ [][VerifyCall]_vars

-----------------------------------------------------------------------------
(* Properties of the pipeline run and of the router *)

Text(s) == PyStr(<<s>>)

\* C1: after a run that was not interrupted, extractions and validations
\* have the length of the work-item list, and the section_id of
\* extraction i and of validation i is the section_id of work item i.
C1_ItemIdsFollowInputOrder ==
    (pc = "done" /\ ~interrupted) =>
        /\ Len(extractions) = Len(variables)
        /\ Len(validations) = Len(variables)
        /\ \A i \in 1..Len(variables) :
              /\ extractions[i].section_id = PyStr(variables[i].section_id)
              /\ validations[i].section_id = PyStr(variables[i].section_id)

\* C2: the status of every ExtractionResult is one of FOUND, PARTIAL,
\* NOT_FOUND, SKIPPED, STANDARD_TEXT, ERROR.
C2_StatusIsOneOfSix ==
    \A i \in 1..Len(extractions) :
        extractions[i].status \in
            {Text("FOUND"), Text("PARTIAL"), Text("NOT_FOUND"), Text("SKIPPED"),
             Text("STANDARD_TEXT"), Text("ERROR")}

\* C3: an ExtractionResult whose status is STANDARD_TEXT or SKIPPED has no
\* evidence, whether a short-circuit built it or a recovered record did.
C3_ShortCircuitStatusHasNoEvidence ==
    \A i \in 1..Len(extractions) :
        extractions[i].status \in {Text("STANDARD_TEXT"), Text("SKIPPED")}
            => extractions[i].evidence = <<>>

\* C4: extract_variable always returns a result and never raises; when the
\* agent raised, at construction or at invocation, the result has status
\* ERROR and its error is the type name, ": " and the message of the failure.
C4_RouteIsTotal ==
    /\ pc # "crashed"
    /\ run_exc = ""
    /\ last_call.kind \in {"direct", "return", "raise"} => Len(extractions) = last_call.item
    /\ last_call.kind = "raise" =>
          /\ extractions[last_call.item].status = Text("ERROR")
          /\ extractions[last_call.item].error
                = PyStr(<<last_call.exc, ": ">> \o last_call.msg)

\* C4 witness: the agent raised TimeoutError and the call returned a result.
C4_AgentRaisedAndRouteReturned ==
    /\ last_call.kind = "raise"
    /\ last_call.exc = "TimeoutError"
    /\ Len(extractions) = last_call.item

\* C5: when the agent call returned text, the raw_response of the result is
\* that text.
C5_RawResponseIsReturnedText ==
    (last_call.kind = "return" /\ Len(extractions) >= last_call.item) =>
        extractions[last_call.item].raw_response = PyStr(last_call.text)

\* C6: an item with is_standard_text set, whatever its other flags, gets
\* status STANDARD_TEXT, answer and filled_template equal to its required
\* text, confidence HIGH and no evidence, and no agent is built or invoked
\* for it.
C6_StandardTextShortCircuit ==
    \A i \in 1..Len(variables) :
        variables[i].is_standard_text =>
            /\ \A k \in 1..Len(rlm_log) : rlm_log[k].item # i
            /\ i <= Len(extractions) =>
                  /\ extractions[i].status = Text("STANDARD_TEXT")
                  /\ extractions[i].answer = PyStr(variables[i].required_text)
                  /\ extractions[i].filled_template = PyStr(variables[i].required_text)
                  /\ extractions[i].confidence = Text("HIGH")
                  /\ extractions[i].evidence = <<>>

\* C6 witness: a standard-text item flagged as not in the protocol was routed.
C6_StandardItemRouted ==
    /\ Len(extractions) = 1
    /\ variables[1].is_standard_text
    /\ ~variables[1].is_in_protocol
    /\ ~variables[1].partially_in_protocol
    /\ variables[1].required_text # <<>>
    /\ last_call.kind = "direct"

\* C7: an item that is not standard text and is neither in the protocol nor
\* partially in it gets status SKIPPED, empty answer, filled_template and
\* evidence, confidence "N/A", and no agent is invoked for it.
C7_SkippedShortCircuit ==
    \A i \in 1..Len(variables) :
        (/\ ~variables[i].is_standard_text
         /\ ~variables[i].is_in_protocol
         /\ ~variables[i].partially_in_protocol) =>
            /\ \A k \in 1..Len(rlm_log) : rlm_log[k].item # i
            /\ i <= Len(extractions) =>
                  /\ extractions[i].status = Text("SKIPPED")
                  /\ extractions[i].answer = PyStr(<<>>)
                  /\ extractions[i].filled_template = PyStr(<<>>)
                  /\ extractions[i].confidence = Text("N/A")
                  /\ extractions[i].evidence = <<>>

\* C7 witness: an unavailable item that is not standard text was routed.
C7_UnavailableItemRouted ==
    /\ Len(extractions) = 1
    /\ ~variables[1].is_standard_text
    /\ ~variables[1].is_in_protocol
    /\ ~variables[1].partially_in_protocol
    /\ last_call.kind = "direct"

-----------------------------------------------------------------------------
(* Properties of the classifier and of the recovery parser *)

\* C8: the flags follow the decision table read tag by tag: a keyword counts
\* when some single tag contains it, so the order of the tags cannot matter.
C8_PerTagDecisionTable ==
    LET has(kw) == \E i \in 1..Len(complexity) : Contains(lower(complexity[i]), kw)
        mapping == has(KwEasyMapping) \/ has(KwModerateMapping) \/ has(KwComplexMapping)
                   \/ has(KwPotentially)
    IN
    cls_pc = "done" =>
        cls_out = IF has(KwStandardText) THEN <<TRUE, FALSE, TRUE>>
                  ELSE IF has(KwNotInProtocol) /\ ~mapping THEN <<FALSE, FALSE, FALSE>>
                  ELSE IF has(KwNotInProtocol) /\ mapping THEN <<TRUE, TRUE, FALSE>>
                  ELSE <<TRUE, FALSE, FALSE>>

\* C9: parse_extraction_json returns the result of the first strategy that
\* succeeds, in the order whole text as JSON, whole text as a Python literal,
\* fenced block, brace candidates, free-text fallback; a strategy that does
\* not yield a mapping has failed and the next one is tried.
C9_FirstSuccessfulStrategyReturned ==
    rec_pc = "done" =>
        rec_out = IF raw = <<>> THEN ReturnNone
                  ELSE OrElse(DirectStrategy(Strip(raw)),
                       OrElse(DictOrNone(literal_eval(Strip(raw))),
                       OrElse(FenceStrategy(raw),
                       OrElse(BraceStrategy(raw),
                              FallbackStrategy(Strip(raw))))))

\* C10: when the first three strategies yield no mapping and some brace
\* candidate parses as an object, the last candidate that parses as an
\* object and has a "status" key is returned, or, no candidate having the
\* key, the last candidate that parses as an object.
C10_LastStatusCandidatePreferred ==
    LET cands == _extract_brace_candidates(raw)
        object(i) == IsDict(json_loads(cands[i]))
        P == {i \in 1..Len(cands) : object(i)}
        S == {i \in P : HasKey(json_loads(cands[i]).v, "status")}
        last(T) == CHOOSE i \in T : \A j \in T : j <= i
    IN
    (/\ rec_pc = "done"
     /\ raw # <<>>
     /\ DirectStrategy(Strip(raw)).kind # "dict"
     /\ DictOrNone(literal_eval(Strip(raw))).kind # "dict"
     /\ FenceStrategy(raw).kind # "dict"
     /\ P # {}) =>
        rec_out = ReturnDict(json_loads(cands[IF S # {} THEN last(S) ELSE last(P)]).v)

\* C11: for every text of 21 characters or more that is not JSON, leading
\* and trailing whitespace counted, parse_extraction_json returns a record,
\* never None.
C11_LongNonJsonTextYieldsRecord ==
    (/\ rec_pc = "done"
     /\ TextLen(raw) > MinFallbackLen
     /\ ~json_loads(Strip(raw)).ok) =>
        rec_out.kind = "dict"

-----------------------------------------------------------------------------
(* Properties of the validation *)

\* C12: verify_quote returns False when the quote or the protocol text is
\* the empty string; otherwise it returns True whenever the quote, lowercased
\* with its whitespace runs collapsed and trimmed, is a substring of the
\* protocol text normalised the same way.
C12_NormalisedSubstringVerifies ==
    vq_pc = "done" =>
        /\ (vq_quote = <<>> \/ vq_text = <<>>) => ~vq_out
        /\ (/\ vq_quote # <<>>
            /\ vq_text # <<>>
            /\ Contains(_normalise(vq_text), _normalise(vq_quote))) => vq_out

\* C12 witness: a quote that differs from the protocol text in case and in
\* whitespace was verified.
C12_QuoteVerifiedUpToCaseAndBlanks ==
    /\ vq_pc = "done"
    /\ vq_quote = <<"A", "\n", "b">>
    /\ vq_text = <<"a", " ", "b">>
    /\ vq_out

\* C13: an ExtractionResult whose status is SKIPPED, ERROR, NOT_FOUND or
\* STANDARD_TEXT gets a ValidationResult with its own section_id, no quote
\* flags, no reading grade and no issues, whatever its evidence and answer.
C13_SkipStatusGetsEmptyValidation ==
    pc \in {"summarise", "done"} =>
        /\ Len(validations) = Len(extractions)
        /\ \A i \in 1..Len(extractions) :
              extractions[i].status \in {Text("SKIPPED"), Text("ERROR"), Text("NOT_FOUND"),
                                         Text("STANDARD_TEXT")}
                  => /\ validations[i].section_id = extractions[i].section_id
                     /\ validations[i].quotes_verified = <<>>
                     /\ ~validations[i].reading_grade_level.some
                     /\ validations[i].issues = <<>>

\* C13 witness: a SKIPPED result that carries an ungrounded quote was
\* validated.
C13_SkippedResultWithEvidenceValidated ==
    /\ pc = "done"
    /\ \E i \in 1..Len(extractions) :
          /\ extractions[i].status = Text("SKIPPED")
          /\ extractions[i].evidence # <<>>
          /\ ~verify_quote(extractions[i].evidence[1].quote, ProtocolText)

\* C14: for an ExtractionResult whose status is outside the skip list,
\* quotes_verified has one flag per evidence quote, flag k being
\* verify_quote of quote k against the protocol text, and issues begins
\* with one "not verified" message per False flag, in evidence order, any
\* reading-level issue coming after them.
C14_QuoteFlagsAndIssuesAligned ==
    pc \in {"summarise", "done"} =>
        \A i \in 1..Len(extractions) :
            extractions[i].status \notin SkipStatuses =>
                LET ev == extractions[i].evidence
                    flags == validations[i].quotes_verified
                    issues == validations[i].issues
                    F == {k \in 1..Len(flags) : ~flags[k]}
                    nth(j) == CHOOSE k \in F : Cardinality({m \in F : m <= k}) = j
                IN
                /\ Len(flags) = Len(ev)
                /\ \A k \in 1..Len(ev) : flags[k] = verify_quote(ev[k].quote, ProtocolText)
                /\ Len(issues) >= Cardinality(F)
                /\ \A j \in 1..Cardinality(F) : issues[j] = QuoteIssue(ev[nth(j)].quote)
                /\ \A j \in (Cardinality(F) + 1)..Len(issues) :
                      issues[j][1] # "Quote not verified in protocol: "

\* C14 witness: a result with the flags False, True, False and a reading
\* level above the target was validated: two quote issues, then the
\* reading-level issue.
C14_TwoQuoteIssuesThenReadingIssue ==
    /\ pc = "done"
    /\ \E i \in 1..Len(validations) :
          /\ validations[i].quotes_verified = <<FALSE, TRUE, FALSE>>
          /\ Len(validations[i].issues) = 3
          /\ validations[i].issues[3] = ReadingIssue(95)

-----------------------------------------------------------------------------
(* Properties of the interruption and of the end of the run *)

\* C15: once KeyboardInterrupt has been caught around the loop, no further
\* item is routed and the list of extractions no longer changes; it holds
\* the results of the first items, in input order, one whole result each;
\* validate_extractions and _build_summary work on exactly that list.
C15_InterruptKeepsPrefix ==
    /\ [](interrupted =>
            /\ pc \in {"validate", "summarise", "done", "crashed"}
            /\ Len(extractions) <= Len(variables)
            /\ \A i \in 1..Len(extractions) :
                  /\ Route(variables[i]) = "standard"
                        => extractions[i] = _make_standard_result(variables[i])
                  /\ Route(variables[i]) = "skipped"
                        => extractions[i] = _make_skipped_result(variables[i])
                  /\ Route(variables[i]) = "rlm"
                        => \E k \in 1..Len(rlm_log) : rlm_log[k].item = i
            /\ \A k \in 1..Len(rlm_log) : rlm_log[k].item <= Len(extractions) + 1
            /\ pc \in {"summarise", "done"} =>
                  /\ Len(validations) = Len(extractions)
                  /\ \A i \in 1..Len(extractions) :
                        validations[i].section_id = extractions[i].section_id
            /\ pc = "done" => summary.total_sections = Len(extractions))
    /\ [][interrupted => (extractions' = extractions /\ rlm_log' = rlm_log /\ idx' = idx)]_vars

\* C15 witness: a run of two items was interrupted after the first and ended
\* with one extraction, one validation and a summary of one section.
C15_InterruptedAfterFirstItem ==
    /\ interrupted
    /\ pc = "done"
    /\ Len(variables) = 2
    /\ Len(extractions) = 1
    /\ Len(validations) = 1
    /\ summary.total_sections = 1

\* C16: an interruption that arrives while the agent call of an item is in
\* flight does not stop that item: its result is appended to extractions
\* before the run goes on to validation.
C16_InFlightItemCompletes ==
    last_call.kind = "interrupted" => Len(extractions) >= last_call.item

\* C17: a run that is not interrupted eventually reaches the summary with
\* one result per work item; a failure of the agent never ends the run, the
\* item whose agent call raised getting status ERROR.
C17_RunReachesSummary ==
    /\ <>(interrupted \/ (pc = "done" /\ Len(extractions) = Len(variables)))
    /\ [](run_exc \notin {f.type : f \in AgentFailures})
    /\ [](last_call.kind = "raise" =>
            /\ Len(extractions) >= last_call.item
            /\ extractions[last_call.item].status = Text("ERROR"))

\* C18: in the summary each of the six counters is the number of
\* extractions with that status, the six add up to total_sections, which is
\* the number of extractions, and validation_issues is the sum of the
\* lengths of the issues lists.
C18_SummaryCountsAddUp ==
    LET n(name) == Cardinality({i \in 1..Len(extractions) : extractions[i].status = Text(name)})
    IN
    pc = "done" =>
        /\ summary.found = n("FOUND")
        /\ summary.partial = n("PARTIAL")
        /\ summary.not_found = n("NOT_FOUND")
        /\ summary.skipped = n("SKIPPED")
        /\ summary.standard_text = n("STANDARD_TEXT")
        /\ summary.errors = n("ERROR")
        /\ summary.total_sections = Len(extractions)
        /\ summary.found + summary.partial + summary.not_found + summary.skipped
             + summary.standard_text + summary.errors = summary.total_sections
        /\ summary.validation_issues = SumIssues(validations)

\* C19: check_reading_level raises for no answer that a validated
\* extraction carries, and validate_extractions does not raise because of it:
\* the grade is None for an empty answer, for an answer of fewer than ten
\* words and without textstat, and the textstat grade otherwise.
C19_ReadabilityNeverRaises ==
    /\ run_exc # "AttributeError"
    /\ pc \in {"summarise", "done"} =>
          \A i \in 1..Len(extractions) :
              extractions[i].status \notin SkipStatuses =>
                  validations[i].reading_grade_level
                      = IF \/ ~Truthy(extractions[i].answer)
                           \/ Len(split(extractions[i].answer.s)) < MinWords
                           \/ ~textstat.installed
                        THEN NoGrade
                        ELSE Grade(textstat.tenths)

-----------------------------------------------------------------------------
(* Properties of the brace scan *)

\* C20: the brace scan returns the maximal brace-balanced substrings of the
\* text, each from a "{" to the "}" that closes it, in their order of
\* appearance, also when an unmatched "}" comes before a balanced object.
C20_ScanReturnsMaximalBalanced ==
    LET depth(i, j) == Cardinality({k \in i..j : raw[k] = "{"})
                         - Cardinality({k \in i..j : raw[k] = "}"})
        balanced(i, j) == /\ raw[i] = "{"
                          /\ raw[j] = "}"
                          /\ depth(i, j) = 0
                          /\ \A k \in i..(j - 1) : depth(i, k) > 0
        B == {p \in (1..Len(raw)) \X (1..Len(raw)) : p[1] < p[2] /\ balanced(p[1], p[2])}
        M == {p \in B : ~\E q \in B : q # p /\ q[1] <= p[1] /\ p[2] <= q[2]}
        nth(n) == CHOOSE p \in M : Cardinality({q \in M : q[1] <= p[1]}) = n
    IN
    (rec_pc = "done" /\ ReachesBraceScan(raw)) =>
        candidates = [n \in 1..Cardinality(M) |-> SubSeq(raw, nth(n)[1], nth(n)[2])]

-----------------------------------------------------------------------------
(* Properties of the fallback and of the parse-failure result *)

\* C21: parse_extraction_json returns None exactly when the text is empty,
\* or when none of the strategies 1 to 4 (whole text as JSON, whole text as
\* a Python literal, fenced block, brace candidates) yields a mapping and
\* the stripped text has 20 characters or fewer; when none of them yields a
\* mapping and the stripped text is longer, it returns the fallback record:
\* status PARTIAL, the stripped text as answer, no evidence, confidence LOW.
C21_AbsentOrFallbackAfterFourStrategies ==
    LET failed == /\ DirectStrategy(Strip(raw)).kind # "dict"
                  /\ DictOrNone(literal_eval(Strip(raw))).kind # "dict"
                  /\ FenceStrategy(raw).kind # "dict"
                  /\ BraceStrategy(raw).kind # "dict"
    IN
    rec_pc = "done" =>
        /\ rec_out = ReturnNone
              <=> (raw = <<>> \/ (failed /\ TextLen(Strip(raw)) <= MinFallbackLen))
        /\ (raw # <<>> /\ failed /\ TextLen(Strip(raw)) > MinFallbackLen) =>
              rec_out = ReturnDict(FallbackRecord(Strip(raw)))

\* C21 counterexample: the text {{"status":"FOUND"}} of 20 characters, which
\* no strategy turns into a mapping, ended parse_extraction_json with a
\* TypeError instead of None.
C21_ShortTextRaisedInsteadOfNone ==
    ~(/\ rec_pc = "done"
      /\ raw = <<"{", "{", "\"status\":", "\"FOUND\"", "}", "}">>
      /\ TextLen(Strip(raw)) = MinFallbackLen
      /\ rec_out.kind = "raise"
      /\ rec_out.exc.type = "TypeError")

\* C22: when rlm.completion returns a text for which parse_extraction_json
\* returns None, extract_variable returns a result with status ERROR, the
\* note of a parse failure, an empty answer, no evidence and the returned
\* text in raw_response; run() appends it and goes on to the next item.
C22_ParseFailureBecomesErrorResult ==
    [][(/\ pc = "inflight"
        /\ last_call'.kind = "return"
        /\ parse_extraction_json(last_call'.text).kind = "None") =>
           /\ Len(extractions') = Len(extractions) + 1
           /\ extractions'[idx].section_id = PyStr(variables[idx].section_id)
           /\ extractions'[idx].status = Text("ERROR")
           /\ extractions'[idx].notes = Text("Failed to parse JSON from RLM response.")
           /\ extractions'[idx].answer = PyStr(<<>>)
           /\ extractions'[idx].evidence = <<>>
           /\ extractions'[idx].raw_response = PyStr(last_call'.text)
           /\ pc' = "loop"
           /\ idx' = idx + 1
           /\ run_exc' = ""]_vars

\* C22 witness: the agent answered "Done" for the first of two items; the
\* ERROR result holding that text was appended and the loop stands at the
\* second item.
C22_UnparsableTextThenNextItem ==
    /\ last_call.kind = "return"
    /\ last_call.item = 1
    /\ last_call.text = <<"Done">>
    /\ Len(variables) = 2
    /\ Len(extractions) = 1
    /\ extractions[1].status = Text("ERROR")
    /\ extractions[1].raw_response = Text("Done")
    /\ pc = "loop"
    /\ idx = 2

-----------------------------------------------------------------------------
(* Properties of the iteration budget and of the agent calls *)

\* C23: whatever the item and the configured max_iterations M, the
\* max_iterations an RLM instance is built with is min(b, M), where b is 10
\* for the label Easy, 15 for Moderate, M for Complex, 8 for "Not in
\* protocol" and 12 for any other label; it is never above M.
C23_BudgetIsLabelEntryClampedToMaximum ==
    \A k \in 1..Len(rlm_log) :
        LET label == get_complexity_label(variables[rlm_log[k].item])
            b == CASE label = "Easy" -> 10
                   [] label = "Moderate" -> 15
                   [] label = "Complex" -> max_iterations
                   [] label = "Not in protocol" -> 8
                   [] OTHER -> 12
        IN
        /\ rlm_log[k].max_iterations = IF b <= max_iterations THEN b ELSE max_iterations
        /\ rlm_log[k].max_iterations <= max_iterations

\* C23 witness: an engine configured with 9 iterations built the RLM
\* instance of an item labelled Easy with 9 iterations, not 10.
C23_EasyBudgetClampedToNine ==
    /\ max_iterations = 9
    /\ rlm_log # <<>>
    /\ get_complexity_label(variables[rlm_log[1].item]) = "Easy"
    /\ rlm_log[1].op = "RLM"
    /\ rlm_log[1].max_iterations = 9

-----------------------------------------------------------------------------
(* Properties of the complexity label *)

\* C24: the label is decided by the first tag of the list that contains a
\* keyword, the keywords being tried inside that tag in the order "easy"
\* (Easy), "moderate" (Moderate), "complex mapping" (Complex), "potentially
\* in protocol" (Moderate); when no tag contains a keyword the label is "Not
\* in protocol" for a variable that is not in the protocol and Moderate
\* otherwise.  The label is one of Easy, Moderate, Complex, "Not in protocol".
C24_FirstMatchingTagDecidesLabel ==
    LET of(tag) == IF Contains(lower(tag), <<"easy">>) THEN "Easy"
                   ELSE IF Contains(lower(tag), <<"moderate">>) THEN "Moderate"
                   ELSE IF Contains(lower(tag), <<"complex", " ", "mapping">>) THEN "Complex"
                   ELSE IF Contains(lower(tag), <<"potentially", " ", "in", " ", "protocol">>)
                   THEN "Moderate"
                   ELSE "none"
        first(i) == of(complexity[i]) # "none" /\ \A j \in 1..(i - 1) : of(complexity[j]) = "none"
    IN
    lbl_pc = "done" =>
        /\ \A i \in 1..Len(complexity) : first(i) => lbl_out = of(complexity[i])
        /\ (\A i \in 1..Len(complexity) : of(complexity[i]) = "none") =>
              lbl_out = IF lbl_is_in_protocol THEN "Moderate" ELSE "Not in protocol"
        /\ lbl_out \in {"Easy", "Moderate", "Complex", "Not in protocol"}

\* C24 witness: the tags "Complex mapping easy", "Moderate Mapping" gave
\* Easy: the first tag decided, and inside it "easy" was tried before
\* "complex mapping".
C24_FirstTagWithTwoKeywordsGaveEasy ==
    /\ lbl_pc = "done"
    /\ complexity = << <<"Complex", " ", "mapping", " ", "easy">>,
                       <<"Moderate", " ", "Mapping">> >>
    /\ lbl_out = "Easy"

-----------------------------------------------------------------------------
(* Properties of verify_quote *)

\* C25: for a quote and a protocol text that are not the empty string,
\* verify_quote returns True exactly when, on the normalised strings, (a)
\* the quote is contained in the text, or (b) the first 120 characters of
\* the quote are more than 30 characters and are contained in the text, or
\* (c) there is a phrase of more than 15 characters among the pieces between
\* commas and periods and at least half of such phrases are each contained
\* in the text.  When neither the quote, nor its first 120 characters, nor
\* any such phrase is contained in the text, the quote is not verified and
\* the validation appends the "Quote not verified" issue.
C25_VerifiedIffOneOfThreeStrategies ==
    LET q == _normalise(vq_quote)
        r == _normalise(vq_text)
        prefix == SubSeq(q, 1, IF Len(q) < 120 THEN Len(q) ELSE 120)
        cuts == {0, Len(q) + 1} \cup {i \in 1..Len(q) : q[i] \in {",", "."}}
        segs == {s \in cuts \X cuts : s[1] < s[2] /\ ~\E c \in cuts : s[1] < c /\ c < s[2]}
        phrase(s) == Strip(SubSeq(q, s[1] + 1, s[2] - 1))
        kept == {s \in segs : Len(phrase(s)) > 15}
        found == {s \in kept : Contains(r, phrase(s))}
        a == Contains(r, q)
        b == Len(prefix) > 30 /\ Contains(r, prefix)
        c == kept # {} /\ 2 * Cardinality(found) >= Cardinality(kept)
    IN
    (vq_pc = "done" /\ vq_quote # <<>> /\ vq_text # <<>>) =>
        /\ vq_out <=> (a \/ b \/ c)
        /\ vq_out => vq_issues = <<>>
        /\ (~a /\ ~Contains(r, prefix) /\ found = {}) =>
              /\ ~vq_out
              /\ Len(vq_issues) = 1
              /\ vq_issues[1][1] = "Quote not verified in protocol: "

\* C25 witness: a quote of two phrases, one of them in the protocol text, was
\* verified by the phrase match alone: the quote is not contained in the
\* text and neither are its first 120 characters.
C25_HalfOfThePhrasesVerified ==
    /\ vq_pc = "done"
    /\ vq_quote = Take(LongRun, 20) \o <<",">> \o QuoteUngrounded
    /\ vq_text = LongRun \o <<".">>
    /\ ~Contains(_normalise(vq_text), _normalise(vq_quote))
    /\ vq_out
    /\ vq_issues = <<>>

-----------------------------------------------------------------------------
(* Properties of the order of routing and validation *)

\* C26: processing is per item: the result of item i has been validated
\* before the routing of item i+1 begins, so whenever the loop stands at an
\* item or has its agent call in flight, every earlier item has its
\* validation.
C26_ItemValidatedBeforeNextRouted ==
    (pc \in {"loop", "inflight"} /\ idx <= Len(variables)) =>
        Len(validations) = idx - 1

\* C26 as amended: routing is per item and validation is one stage after
\* it: while the loop runs each item's result is appended before the next
\* item is routed and nothing is validated; once the loop has ended the
\* validator has run once over the whole list and there is one validation
\* for each result, in the order of the list.
C26_RoutedPerItemValidatedAfterLoop ==
    /\ pc \in {"loop", "inflight"} => Len(extractions) = idx - 1
    /\ pc \in {"loop", "inflight", "validate"} => validations = <<>>
    /\ pc \in {"summarise", "done"} =>
          /\ Len(validations) = Len(extractions)
          /\ \A i \in 1..Len(extractions) :
                validations[i].section_id = extractions[i].section_id

\* C26 witness: two items were routed one after the other, with no
\* validation in between, and both results were validated after the loop.
C26_TwoItemsRoutedThenValidated ==
    /\ pc = "summarise"
    /\ ~interrupted
    /\ Len(variables) = 2
    /\ Len(extractions) = 2
    /\ Len(validations) = 2
    /\ validations[2].section_id = PyStr(SectionId(2))

-----------------------------------------------------------------------------
(* Properties of the agent instances *)

\* C27: every RLM instance built for an item is released before
\* extract_variable returns for that item, on the success path and on the
\* error paths: once the loop is past an item, or the loop has ended, each
\* instance whose completion was called has a later release in the log of
\* the calls made on the agent.
C27_AgentReleasedBeforeRouteReturns ==
    \A k \in 1..Len(rlm_log) :
        (/\ rlm_log[k].op = "completion"
         /\ (rlm_log[k].item < idx \/ pc \notin {"loop", "inflight"})) =>
            \E j \in (k + 1)..Len(rlm_log) :
                /\ rlm_log[j].item = rlm_log[k].item
                /\ rlm_log[j].op \in {"close", "__exit__", "__del__"}

\* C28: during a run the agent is invoked (an RLM instance is built, and
\* completion is called on it unless the constructor raised) exactly once
\* for each item with a result that is neither standard text nor fully
\* unavailable, and never for an item that is standard text or fully
\* unavailable; no item is invoked twice, a failed one included; every
\* completion call is made on the instance built just before it for the same
\* item; at most one item has its call in progress.
C28_OneFreshAgentCallPerExtractedItem ==
    LET calls(i, op) == {k \in 1..Len(rlm_log) : rlm_log[k].item = i /\ rlm_log[k].op = op}
        needsAgent(i) == /\ ~variables[i].is_standard_text
                         /\ variables[i].is_in_protocol \/ variables[i].partially_in_protocol
        inProgress == {i \in 1..Len(variables) :
                          /\ calls(i, "completion") # {}
                          /\ i > Len(extractions)
                          /\ pc = "inflight"}
    IN
    /\ \A i \in 1..Len(variables) :
          /\ (i <= Len(extractions) /\ needsAgent(i)) => Cardinality(calls(i, "RLM")) = 1
          /\ ~needsAgent(i) => calls(i, "RLM") = {} /\ calls(i, "completion") = {}
          /\ Cardinality(calls(i, "RLM")) <= 1
          /\ Cardinality(calls(i, "completion")) <= 1
    /\ \A k \in 1..Len(rlm_log) :
          rlm_log[k].op = "completion" =>
              /\ k > 1
              /\ rlm_log[k - 1].op = "RLM"
              /\ rlm_log[k - 1].item = rlm_log[k].item
    /\ Cardinality(inProgress) <= 1

\* C28 witness: a run of two items has ended; the first item was skipped
\* without any call on the agent, the second was answered with an ERROR
\* result after its one agent call failed, and was not tried again.
C28_SkippedThenOneFailedCall ==
    /\ pc = "done"
    /\ Len(variables) = 2
    /\ Len(extractions) = 2
    /\ ~variables[1].is_in_protocol /\ ~variables[1].partially_in_protocol
    /\ extractions[1].status = Text("SKIPPED")
    /\ extractions[2].status = Text("ERROR")
    /\ last_call.kind = "raise"
    /\ [k \in 1..Len(rlm_log) |-> <<rlm_log[k].item, rlm_log[k].op>>]
          = << <<2, "RLM">>, <<2, "completion">> >>

\* C29: a quote that is empty after normalisation (whitespace only) is never
\* reported as verified by verify_quote, against any protocol text, and no
\* quote is verified against a protocol text that is empty after
\* normalisation.
C29_EmptyAfterNormaliseNeverVerified ==
    (vq_pc = "done" /\ (_normalise(vq_quote) = <<>> \/ _normalise(vq_text) = <<>>))
        => ~vq_out

\* C30: for an item whose three flags are the ones _classify_availability
\* gives for its tags, the label "Not in protocol" means the item is answered
\* with a SKIPPED result and no call is made on the agent; every call made
\* on the agent is for an item labelled Easy, Moderate or Complex and carries
\* the smaller of that label's budget entry and the configured maximum, so
\* neither the "Not in protocol" entry (8) nor the entry of an unrecognised
\* label (12) is ever the source of a budget, and the number handed to the
\* agent is 8 or 12 only when the configured maximum itself is.
C30_ClassifiedNotInProtocolIsSkipped ==
    \A i \in 1..Len(variables) :
        LET v == variables[i]
            label == get_complexity_label(v)
            calls == {k \in 1..Len(rlm_log) : rlm_log[k].item = i}
        IN
        (<<v.is_in_protocol, v.partially_in_protocol, v.is_standard_text>>
             = _classify_availability(v.complexity))
        =>
        /\ label = "Not in protocol" => calls = {}
        /\ (label = "Not in protocol" /\ i <= Len(extractions))
              => extractions[i].status = Text("SKIPPED")
        /\ \A k \in calls :
              /\ label \in {"Easy", "Moderate", "Complex"}
              /\ rlm_log[k].max_iterations
                    = min(CASE label = "Easy" -> 10
                            [] label = "Moderate" -> 15
                            [] OTHER -> max_iterations,
                          max_iterations)
              /\ max_iterations \notin {8, 12} => rlm_log[k].max_iterations \notin {8, 12}

\* C30 witness: an item whose tags "not in", "protocol" make the classifier
\* flag it as fully unavailable is labelled "Not in protocol"; the call has
\* returned a SKIPPED result and nothing was called on the agent.
C30_CrossTagNotInProtocolSkipped ==
    /\ Len(variables) = 1
    /\ Len(extractions) = 1
    /\ variables[1].complexity = << <<"not", " ", "in">>, <<"protocol">> >>
    /\ <<variables[1].is_in_protocol, variables[1].partially_in_protocol,
         variables[1].is_standard_text>> = _classify_availability(variables[1].complexity)
    /\ get_complexity_label(variables[1]) = "Not in protocol"
    /\ extractions[1].status = Text("SKIPPED")
    /\ rlm_log = <<>>

====
